---- MODULE Spec2Model ----
(***************************************************************************)
(* DecoPilot front end: NDJSON stream decoding (processStream in App.jsx,  *)
(* streamResponse in the response parser), the request life cycle         *)
(* (sendMessage / stopGeneration), the chat list (startNewChat /           *)
(* loadChat with the history sync effect), sendChatRequest, and the        *)
(* markdown table repair (processContent).                                 *)
(*                                                                         *)
(* Text is a sequence of symbols.  For the stream the symbols are JSON     *)
(* pieces cut at JSON token boundaries, so that white space between two    *)
(* symbols is white space between two JSON tokens.                         *)
(***************************************************************************)
EXTENDS Integers, Sequences, FiniteSets, TLC

\* ------------------------------------------------------------------------
\* Bounds
\* ------------------------------------------------------------------------
MaxLines == 3
MaxCuts == 1
MaxText == 6
MaxNow == 2
MaxRequests == 3
MaxTimers == 1
MaxChatRequests == 2

\* ------------------------------------------------------------------------
\* Symbols of the wire text
\* ------------------------------------------------------------------------
NL == "\n"
SP == " "
Undef == "undefined"

\* `{"type":"X",` : the opening of an event object, up to the first comma
Heads ==
  { "{type:text,", "{type:answer,", "{type:thinking,", "{type:error,",
    "{type:table,", "{type:stream_end,", "{type:stream_start,", "{type:custom,",
    "{type:process_steps,", "{type:expert_debug," }

TypeOf(h) ==
  CASE h = "{type:text," -> "text"
    [] h = "{type:answer," -> "answer"
    [] h = "{type:thinking," -> "thinking"
    [] h = "{type:error," -> "error"
    [] h = "{type:table," -> "table"
    [] h = "{type:stream_end," -> "stream_end"
    [] h = "{type:stream_start," -> "stream_start"
    [] h = "{type:custom," -> "custom"
    [] h = "{type:process_steps," -> "process_steps"
    [] h = "{type:expert_debug," -> "expert_debug"

\* the rest of an event object, closing brace included
Tails ==
  { "content:a}", "content:b}", "data:{logs:[l]}}", "data:{message:m}}",
    "data:{rows:r}}", "data:{duration_ms:1}}", "data:{session_id:s}}",
    "data:{steps:[p]}}", "data:{steps:[q]}}" }

\* `"data":` alone, the object `{"content":"c"}` alone, a closing brace alone
DataKey == "data:"
Obj == "{content:c}"
Close == "}"

\* JSON texts that are not objects: `null` and a number
Null == "null"
Num == "1"

Symbols == Heads \cup Tails \cup {DataKey, Obj, Close, Null, Num, NL, SP}

\* a JS value of an event's `data` member
NoData == [kind |-> Undef, content |-> Undef, message |-> Undef, tag |-> Undef]
ObjData(c, m, t) == [kind |-> "object", content |-> c, message |-> m, tag |-> t]

DataOf(t) ==
  CASE t = "data:{logs:[l]}}" -> ObjData(Undef, Undef, "logs")
    [] t = "data:{message:m}}" -> ObjData(Undef, "m", "message")
    [] t = "data:{rows:r}}" -> ObjData(Undef, Undef, "rows")
    [] t = "data:{duration_ms:1}}" -> ObjData(Undef, Undef, "duration")
    [] t = "data:{session_id:s}}" -> ObjData(Undef, Undef, "session")
    [] t = "data:{steps:[p]}}" -> ObjData(Undef, Undef, "steps:p")
    [] t = "data:{steps:[q]}}" -> ObjData(Undef, Undef, "steps:q")
    [] OTHER -> NoData

ContentOf(t) ==
  CASE t = "content:a}" -> "a"
    [] t = "content:b}" -> "b"
    [] OTHER -> Undef

\* ------------------------------------------------------------------------
\* String helpers (String.prototype.trim / split / startsWith)
\* ------------------------------------------------------------------------
IsWs(c) == c \in {NL, SP}

RECURSIVE TrimLeft(_)
TrimLeft(s) ==
  IF s # <<>> /\ IsWs(Head(s)) THEN TrimLeft(Tail(s)) ELSE s

RECURSIVE TrimRight(_)
TrimRight(s) ==
  IF s # <<>> /\ IsWs(s[Len(s)]) THEN TrimRight(SubSeq(s, 1, Len(s) - 1)) ELSE s

Trim(s) == TrimRight(TrimLeft(s))

\* s.split('\n'): done holds the pieces before the piece cur
RECURSIVE SplitFrom(_, _, _)
SplitFrom(s, done, cur) ==
  IF s = <<>> THEN Append(done, cur)
  ELSE IF Head(s) = NL THEN SplitFrom(Tail(s), Append(done, cur), <<>>)
  ELSE SplitFrom(Tail(s), done, Append(cur, Head(s)))

Split(s) == SplitFrom(s, <<>>, <<>>)

StartsWithBrace(s) == s # <<>> /\ (s[1] \in Heads \/ s[1] = Obj)

\* ------------------------------------------------------------------------
\* JSON.parse on the symbols above
\* ------------------------------------------------------------------------
\* kind is "object", "null" or "number"; a member read from a number is
\* undefined
Event(ty, c, d) ==
  [kind |-> "object", type |-> ty, content |-> c, message |-> Undef, data |-> d]
NoEvent == Event(Undef, Undef, NoData)
Scalar(kind) == [NoEvent EXCEPT !.kind = kind]

JSONparse(s) ==
  LET t == SelectSeq(s, LAMBDA c : ~IsWs(c)) IN
  CASE Len(t) = 2 /\ t[1] \in Heads /\ t[2] \in Tails ->
         [ok |-> TRUE, value |-> Event(TypeOf(t[1]), ContentOf(t[2]), DataOf(t[2]))]
    [] Len(t) = 4 /\ t[1] \in Heads /\ t[2] = DataKey /\ t[3] = Obj /\ t[4] = Close ->
         [ok |-> TRUE, value |-> Event(TypeOf(t[1]), Undef, ObjData("c", Undef, "content"))]
    [] t = <<Obj>> ->
         [ok |-> TRUE, value |-> Event(Undef, "c", NoData)]
    [] t = <<Null>> -> [ok |-> TRUE, value |-> Scalar("null")]
    [] t = <<Num>> -> [ok |-> TRUE, value |-> Scalar("number")]
    [] OTHER -> [ok |-> FALSE, value |-> NoEvent]

\* ------------------------------------------------------------------------
\* Messages (App.jsx message objects)
\* ------------------------------------------------------------------------
\* a JS value that is an array of strings, one string, or undefined
JsArray(items) == [kind |-> "array", items |-> items]
JsString(str) == [kind |-> "string", items |-> <<str>>]
JsUndefined == [kind |-> Undef, items |-> <<>>]
JsOf(str) == IF str = Undef THEN JsUndefined ELSE JsString(str)

Greeting == "greeting"
StoppedText == "(stopped)"
WarnMark == "\n\n(!) "
UnknownErrorText == "unknown error"

\* isComplete = FALSE stands for an absent (undefined) isComplete; id 0 for no id
GreetingMsg ==
  [role |-> "assistant", content |-> Greeting, thinking |-> JsUndefined,
   expertInfo |-> NoData, structuredBlocks |-> <<>>, isComplete |-> FALSE, id |-> 0]

UserMsg(text, id) ==
  [role |-> "user", content |-> text, thinking |-> JsUndefined,
   expertInfo |-> NoData, structuredBlocks |-> <<>>, isComplete |-> FALSE, id |-> id]

AssistantMsg(id) ==
  [role |-> "assistant", content |-> "", thinking |-> JsArray(<<>>),
   expertInfo |-> NoData, structuredBlocks |-> <<>>, isComplete |-> FALSE, id |-> id]

\* prev.map(msg => msg.id !== id ? msg : f[msg]), f a function on the messages
Elems(msgs) == {msgs[i] : i \in 1..Len(msgs)}

Holds(msgs, id) == \E i \in 1..Len(msgs) : msgs[i].id = id

MapMsg(msgs, id, f) ==
  [i \in 1..Len(msgs) |-> IF msgs[i].id # id THEN msgs[i] ELSE f[msgs[i]]]

\* a || b on strings and undefined
Truthy(v) == v \notin {Undef, ""}
OrJs(a, b) == IF Truthy(a) THEN a ELSE b

STRUCTURED_TYPES ==
  { "table", "subsidy_calc", "merchant_card", "merchant_list", "process_steps",
    "checklist", "comparison", "sources", "quick_replies", "action_buttons" }

\* data.content || data.data?.content || ''
Fragment(data) == OrJs(OrJs(data.content, data.data.content), "")

\* data.data?.message || data.message || '...'
ErrorText(data) == OrJs(OrJs(data.data.message, data.message), UnknownErrorText)

\* Date.now() + Math.random(), in units of 1/RandomScale ms: Math.random() is
\* one of 0/RandomScale .. (RandomScale - 1)/RandomScale
RandomScale == 2
BlockId(now, draw) == RandomScale * now + draw

Block(data, id) == [type |-> data.type, data |-> data.data, id |-> id]

\* an updater that appends the text of an event of any other type
ApplyEventKeepsUnknown(msg, data, id) ==
  CASE data.type = "thinking" -> [msg EXCEPT !.thinking = JsOf(data.content)]
    [] data.type \in STRUCTURED_TYPES ->
         [msg EXCEPT !.structuredBlocks = Append(@, Block(data, id))]
    [] OTHER -> [msg EXCEPT !.content = @ \o Fragment(data)]

\* the updater of the read loop, for the message of the response
ApplyEvent(msg, data, id) ==
  CASE data.type = "thinking" -> [msg EXCEPT !.thinking = JsOf(data.content)]
    [] data.type \in {"answer", "text"} ->
         [msg EXCEPT !.content = @ \o Fragment(data)]
    [] data.type = "expert_debug" -> [msg EXCEPT !.expertInfo = data.data]
    [] data.type = "error" ->
         [msg EXCEPT !.content = @ \o WarnMark \o ErrorText(data)]
    [] data.type \in STRUCTURED_TYPES ->
         [msg EXCEPT !.structuredBlocks = Append(@, Block(data, id))]
    [] OTHER -> msg

\* the updater used for what is left in the buffer at the end of the stream
ApplyLast(msg, data, id) ==
  CASE data.type \in {"answer", "text"} ->
         [msg EXCEPT !.content = @ \o Fragment(data)]
    [] data.type \in STRUCTURED_TYPES ->
         [msg EXCEPT !.structuredBlocks = Append(@, Block(data, id))]
    [] OTHER -> msg

\* ------------------------------------------------------------------------
\* processStream: one turn of the read loop, and the end of the stream
\* ------------------------------------------------------------------------
\* st = [buffer, messages, applied, now, draws]; applied lists the events
\* handed to setMessages, in call order, each with the text it was parsed
\* from; now is Date.now(), draws the values Math.random() is going to return
\* (0 once they are used up)
NextDraw(st) == IF st.draws = <<>> THEN 0 ELSE Head(st.draws)

\* Math.random() is called once for each block that is built
AfterDraw(st, data) ==
  IF data.type \in STRUCTURED_TYPES /\ st.draws # <<>>
  THEN [st EXCEPT !.draws = Tail(@)] ELSE st

\* the updater reads data.type when it comes to the message with the id: a
\* TypeError when data is null
Throws(msgs, data, id) == data.kind = "null" /\ Holds(msgs, id)

\* the try / catch of the loop on a line that is not blank.  The updater runs
\* when React renders, outside the try: when it throws the render fails, the
\* tree is unmounted and the messages stay those of the updates before it
ApplyLine(st, line, id) ==
  LET r == JSONparse(line) IN
  IF r.ok
  THEN IF Throws(st.messages, r.value, id)
       THEN [st EXCEPT !.threw = TRUE,
                       !.applied = Append(@, [event |-> r.value, text |-> line])]
       ELSE [AfterDraw(st, r.value) EXCEPT
               !.messages =
                  MapMsg(@, id, [m \in Elems(@) |->
                     ApplyEvent(m, r.value, BlockId(st.now, NextDraw(st)))]),
               !.applied = Append(@, [event |-> r.value, text |-> line])]
  ELSE IF StartsWithBrace(Trim(line))
  THEN [st EXCEPT !.buffer = line \o <<NL>> \o @]
  ELSE st

\* a loop that ends at a blank line (break for continue)
RECURSIVE ProcessLinesStopsAtBlank(_, _, _)
ProcessLinesStopsAtBlank(lines, st, id) ==
  IF lines = <<>> \/ st.threw \/ Trim(Head(lines)) = <<>> THEN st
  ELSE ProcessLinesStopsAtBlank(Tail(lines), ApplyLine(st, Head(lines), id), id)

\* the loop; once the tree is unmounted no update has an effect
RECURSIVE ProcessLines(_, _, _)
ProcessLines(lines, st, id) ==
  IF lines = <<>> \/ st.threw THEN st
  ELSE ProcessLines(Tail(lines),
                    IF Trim(Head(lines)) = <<>> THEN st
                    ELSE ApplyLine(st, Head(lines), id), id)

\* a read loop that forgets the incomplete line left by the previous chunk
ReadTurnNoCarry(st, value, id) ==
  LET lines == Split(value)
      n == Len(lines)
  IN ProcessLines(SubSeq(lines, 1, n - 1), [st EXCEPT !.buffer = lines[n]], id)

ReadTurn(st, value, id) ==
  LET text == st.buffer \o value
      lines == Split(text)
      n == Len(lines)
  IN ProcessLines(SubSeq(lines, 1, n - 1), [st EXCEPT !.buffer = lines[n]], id)

EndOfStream(st, id) ==
  LET r == JSONparse(st.buffer)
      last ==
        IF Trim(st.buffer) # <<>> /\ r.ok
        THEN IF Throws(st.messages, r.value, id)
             THEN [st EXCEPT !.threw = TRUE,
                             !.applied = Append(@, [event |-> r.value, text |-> st.buffer])]
             ELSE [AfterDraw(st, r.value) EXCEPT
                     !.messages =
                        MapMsg(@, id, [m \in Elems(@) |->
                           ApplyLast(m, r.value, BlockId(st.now, NextDraw(st)))]),
                     !.applied = Append(@, [event |-> r.value, text |-> st.buffer])]
        ELSE st
  IN IF last.threw THEN last
     ELSE [last EXCEPT
             !.messages =
                MapMsg(@, id, [m \in Elems(@) |-> [m EXCEPT !.isComplete = TRUE]])]

\* ------------------------------------------------------------------------
\* parseLine / streamResponse
\* ------------------------------------------------------------------------
\* ok FALSE stands for the return value null, which is also what
\* JSON.parse returns for the text `null`
parseLine(line) ==
  IF line = <<>> \/ Trim(line) = <<>> THEN [ok |-> FALSE, value |-> NoEvent]
  ELSE LET r == JSONparse(line) IN
       IF r.ok /\ r.value.kind = "null" THEN [ok |-> FALSE, value |-> NoEvent] ELSE r

RECURSIVE YieldLines(_, _)
YieldLines(lines, out) ==
  IF lines = <<>> THEN out
  ELSE LET parsed == parseLine(Head(lines))
       IN YieldLines(Tail(lines), IF parsed.ok THEN Append(out, parsed.value) ELSE out)

\* sr = [buffer, yielded]
StreamTurn(sr, value) ==
  LET lines == Split(sr.buffer \o value)
      n == Len(lines)
  IN [buffer |-> lines[n], yielded |-> YieldLines(SubSeq(lines, 1, n - 1), sr.yielded)]

StreamEnd(sr) ==
  [buffer |-> sr.buffer,
   yielded |-> IF sr.buffer # <<>> THEN YieldLines(<<sr.buffer>>, sr.yielded)
               ELSE sr.yielded]

\* ------------------------------------------------------------------------
\* ResponseAggregator and sendChatRequest
\* ------------------------------------------------------------------------
\* the members of an event's data that process reads
LogsOf(data) == IF data.tag = "logs" THEN <<"l">> ELSE <<>>
DurationOf(data) == IF data.tag = "duration" THEN "1" ELSE Undef
SessionOf(data) == IF data.tag = "session" THEN "s" ELSE Undef
HasSteps(data) == data.tag \in {"steps:p", "steps:q"}
StepsOf(data) == IF data.tag = "steps:p" THEN <<"p">> ELSE <<"q">>

\* endTime -1 stands for null
NoMeta ==
  [sessionId |-> "null", requestId |-> "null", startTime |-> "null",
   endTime |-> -1, durationMs |-> "null", collectionsUsed |-> <<>>]

\* reset(); raised records a TypeError thrown by process
AggReset ==
  [answer |-> "", thinking |-> <<>>, processSteps |-> <<>>, tables |-> <<>>,
   errors |-> <<>>, meta |-> NoMeta, raised |-> FALSE]

Raise(agg) == [agg EXCEPT !.raised = TRUE]

\* process(chunk) at time t; reading a member of an undefined data throws
process(agg, chunk, t) ==
  LET data == chunk.data
      undefined == data.kind = Undef
  IN
  CASE chunk.type = Undef -> agg
    [] chunk.type = "answer" ->
         IF undefined THEN Raise(agg)
         ELSE [agg EXCEPT !.answer = @ \o OrJs(data.content, "")]
    [] chunk.type = "thinking" ->
         IF undefined THEN Raise(agg)
         ELSE IF data.tag = "logs" THEN [agg EXCEPT !.thinking = @ \o LogsOf(data)]
         ELSE agg
    [] chunk.type = "process_steps" ->
         IF undefined THEN Raise(agg)
         ELSE IF HasSteps(data) THEN [agg EXCEPT !.processSteps = StepsOf(data)]
         ELSE agg
    [] chunk.type = "table" -> [agg EXCEPT !.tables = Append(@, data)]
    [] chunk.type = "error" ->
         IF undefined THEN Raise(agg)
         ELSE [agg EXCEPT !.errors = Append(@, [message |-> data.message, code |-> Undef])]
    [] chunk.type = "stream_start" ->
         IF undefined THEN Raise(agg)
         ELSE [agg EXCEPT !.meta.sessionId = SessionOf(data),
                          !.meta.requestId = Undef,
                          !.meta.startTime = Undef]
    [] chunk.type = "stream_end" ->
         IF undefined THEN Raise(agg)
         ELSE [agg EXCEPT !.meta.durationMs = DurationOf(data),
                          !.meta.collectionsUsed = <<>>,
                          !.meta.endTime = t]
    [] OTHER -> agg

\* getResult(), of the members that process keeps here
getResult(a) ==
  [answer |-> a.answer, thinking |-> a.thinking, processSteps |-> a.processSteps,
   tables |-> a.tables, errors |-> a.errors, meta |-> a.meta,
   hasError |-> Len(a.errors) > 0,
   hasStructuredData |-> (Len(a.processSteps) > 0 \/ Len(a.tables) > 0)]

\* onChunk(chunk, type, aggregator.getResult()); process returns the type,
\* or null for a chunk without one; result is the aggregate as it is at the
\* call
OnChunkCall(chunk, a) ==
  [chunk |-> chunk, type |-> IF chunk.type = Undef THEN "null" ELSE chunk.type,
   result |-> getResult(a)]

\* for await (const chunk of streamResponse(response)) over the lines of one
\* turn; sc = [yielded, agg, calls]; a throw of process ends the loop before
\* onChunk is called
RECURSIVE Aggregate(_, _, _)
Aggregate(lines, sc, t) ==
  IF lines = <<>> \/ sc.agg.raised THEN sc
  ELSE LET parsed == parseLine(Head(lines))
           after == process(sc.agg, parsed.value, t)
           next == IF parsed.ok
                   THEN [yielded |-> Append(sc.yielded, parsed.value),
                         agg |-> after,
                         calls |-> IF after.raised THEN sc.calls
                                   ELSE Append(sc.calls, OnChunkCall(parsed.value, after))]
                   ELSE sc
       IN Aggregate(Tail(lines), next, t)

\* ------------------------------------------------------------------------
\* State
\* ------------------------------------------------------------------------
VARIABLES
  chunks,             \* the response body, as the chunks reader.read() will deliver
  pos,                \* number of chunks read so far
  buffer,             \* processStream / streamResponse: let buffer
  messages,           \* React state: messages
  applied,            \* events handed to setMessages (processStream), in call order
  yielded,            \* events yielded by streamResponse, in order
  pc,                 \* where the request is
  path,               \* "json", "legacy" or "image"
  isLoading,          \* React state: isLoading
  abortControllerRef, \* abortControllerRef.current: 0 for null, else the controller
  aborted,            \* controller.signal.aborted
  rawContent,         \* processContent: the argument content
  tableLines,         \* processContent: const lines
  lineIdx,            \* processContent: the number of lines the loop has done
  resultLines,        \* processContent: const result
  pendingTableRow,    \* processContent: let pendingTableRow
  returned,           \* processContent: the value returned
  phase,              \* processContent: where the call is
  pass,               \* 1 for the call on the input, 2 for the call on its result
  firstReturned,      \* the value returned by the call on the input
  now,                \* Date.now()
  draws,              \* the values Math.random() is going to return
  agg,                \* sendChatRequest: const aggregator
  fetches,            \* the fetch calls of sendMessage that have settled, in order
  requests,           \* the sendMessage calls that went past the guard, in order
  timers,             \* the pending setTimeout(() => sendMessage(..), 50), in order
  readerLocked,       \* streamResponse: reader holds the lock on response.body
  history,            \* React state: history, the newest chat first
  currentChatId,      \* React state: currentChatId, 0 for null
  onChunkCalls        \* sendChatRequest: the calls of onChunk, in order

streamVars ==
  <<chunks, pos, buffer, messages, applied, yielded, pc, path, isLoading,
    abortControllerRef, aborted>>

repairVars ==
  <<rawContent, tableLines, lineIdx, resultLines, pendingTableRow, returned, phase,
    pass, firstReturned>>

chatVars == <<history, currentChatId>>

\* what processStream leaves alone
turnVars == <<requests, timers, chatVars>>

lockVars == <<readerLocked>>

aggVars == <<agg, onChunkCalls>>

quietVars == <<now, aggVars, fetches, turnVars, lockVars>>

auxVars == <<draws, quietVars>>

vars == <<streamVars, repairVars, auxVars>>

UserId == 1
NewMsgId == 2
Controller == 1

\* ------------------------------------------------------------------------
\* Response bodies
\* ------------------------------------------------------------------------
GoodLines ==
  { <<"{type:text,", "content:a}">>, <<"{type:answer,", "content:b}">>,
    <<"{type:thinking,", "data:{logs:[l]}}">>, <<"{type:error,", "data:{message:m}}">>,
    <<"{type:table,", "data:{rows:r}}">>, <<"{type:stream_end,", "data:{duration_ms:1}}">> }

BadLines ==
  { <<"{type:text,">>, <<"content:a}">>, <<"{type:text,", DataKey>>, <<Obj, Close>> }

BlankLines == { <<>>, <<SP>> }

LineTemplates == GoodLines \cup BadLines \cup BlankLines

SeqsUpTo(S, n) == UNION {[1..k -> S] : k \in 0..n}

\* the lines joined by newlines; the last newline is there or not
RECURSIVE Join(_)
Join(ls) == IF ls = <<>> THEN <<>> ELSE Head(ls) \o <<NL>> \o Join(Tail(ls))

Payload(ls, trailing) ==
  LET p == Join(ls) IN
  IF trailing \/ p = <<>> THEN p ELSE SubSeq(p, 1, Len(p) - 1)

\* the body cut after each position of cuts, an increasing sequence
RECURSIVE Cut(_, _, _)
Cut(p, from, cuts) ==
  IF cuts = <<>> THEN <<SubSeq(p, from, Len(p))>>
  ELSE <<SubSeq(p, from, Head(cuts))>> \o Cut(p, Head(cuts) + 1, Tail(cuts))

CutPoints(n) ==
  UNION { {c \in [1..k -> 1..n] : \A x, y \in 1..k : x < y => c[x] < c[y]} :
          k \in 0..MaxCuts }

\* every way of cutting a body into at most MaxCuts + 1 non-empty chunks
Chunkings(p) ==
  IF p = <<>> THEN {<<>>}
  ELSE { Cut(p, 1, cuts) : cuts \in CutPoints(Len(p) - 1) }

RECURSIVE Flatten(_)
Flatten(cs) == IF cs = <<>> THEN <<>> ELSE Head(cs) \o Flatten(Tail(cs))

\* processContent is not running
NoPending == [open |-> FALSE, text |-> <<>>]

RepairIdle ==
  /\ rawContent = <<>>
  /\ tableLines = <<>>
  /\ lineIdx = 0
  /\ resultLines = <<>>
  /\ pendingTableRow = NoPending
  /\ returned = <<>>
  /\ phase = "idle"
  /\ pass = 1
  /\ firstReturned = <<>>

\* the clock stands still and Math.random() returns 0
AuxIdle ==
  /\ now = 0
  /\ draws = <<>>
  /\ agg = AggReset
  /\ onChunkCalls = <<>>
  /\ fetches = <<>>
  /\ requests = <<>>
  /\ timers = <<>>
  /\ history = <<>>
  /\ currentChatId = 0

\* ------------------------------------------------------------------------
\* processStream inside sendMessage
\* ------------------------------------------------------------------------
Signalled == path \in {"json", "legacy"}

DecoderState ==
  [buffer |-> buffer, messages |-> messages, applied |-> applied,
   now |-> now, draws |-> draws, threw |-> FALSE]

\* const { done, value } = await reader.read(), done false: one turn of the loop
PSRead ==
  /\ pc = "reading"
  /\ ~(Signalled /\ aborted)
  /\ pos < Len(chunks)
  /\ LET st == ReadTurn(DecoderState, chunks[pos + 1], NewMsgId) IN
       /\ buffer' = st.buffer
       /\ messages' = st.messages
       /\ applied' = st.applied
       /\ draws' = st.draws
       /\ pc' = IF st.threw THEN "crashed" ELSE pc
  /\ pos' = pos + 1
  /\ UNCHANGED <<chunks, yielded, path, isLoading, abortControllerRef, aborted>>
  /\ UNCHANGED repairVars
  /\ UNCHANGED quietVars

\* done true: the rest of the buffer, isComplete, then the finally of sendMessage
PSEnd ==
  /\ pc = "reading"
  /\ ~(Signalled /\ aborted)
  /\ pos = Len(chunks)
  /\ LET st == EndOfStream(DecoderState, NewMsgId) IN
       /\ buffer' = st.buffer
       /\ messages' = st.messages
       /\ applied' = st.applied
       /\ draws' = st.draws
       /\ pc' = IF st.threw THEN "crashed" ELSE "done"
  /\ isLoading' = FALSE
  /\ abortControllerRef' = 0
  /\ UNCHANGED <<chunks, pos, yielded, path, aborted>>
  /\ UNCHANGED repairVars
  /\ UNCHANGED quietVars

\* the state in which processStream starts on the JSON endpoint's response
InitStream ==
  /\ \E ls \in SeqsUpTo(LineTemplates, MaxLines), trailing \in BOOLEAN :
       chunks \in Chunkings(Payload(ls, trailing))
  /\ pos = 0
  /\ buffer = <<>>
  /\ messages = <<GreetingMsg, UserMsg("q", UserId), AssistantMsg(NewMsgId)>>
  /\ applied = <<>>
  /\ yielded = <<>>
  /\ pc = "reading"
  /\ path = "json"
  /\ isLoading = TRUE
  /\ abortControllerRef = Controller
  /\ aborted = FALSE
  /\ RepairIdle
  /\ AuxIdle
  /\ readerLocked = FALSE

NextStream == PSRead \/ PSEnd

SpecStream == InitStream /\ [][NextStream]_vars

\* event lines: fragments in content and in data.content, an error, and an
\* event that carries no text
EventLines ==
  { <<"{type:text,", "content:a}">>, <<"{type:answer,", "content:b}">>,
    <<"{type:text,", DataKey, Obj, Close>>, <<"{type:error,", "data:{message:m}}">>,
    <<"{type:table,", "data:{rows:r}}">> }

\* the same, for the bodies whose every line is an event object
InitWellFormed ==
  /\ \E ls \in SeqsUpTo(EventLines, MaxLines), trailing \in BOOLEAN :
       chunks \in Chunkings(Payload(ls, trailing))
  /\ pos = 0
  /\ buffer = <<>>
  /\ messages = <<GreetingMsg, UserMsg("q", UserId), AssistantMsg(NewMsgId)>>
  /\ applied = <<>>
  /\ yielded = <<>>
  /\ pc = "reading"
  /\ path = "json"
  /\ isLoading = TRUE
  /\ abortControllerRef = Controller
  /\ aborted = FALSE
  /\ RepairIdle
  /\ AuxIdle
  /\ readerLocked = FALSE

SpecWellFormed == InitWellFormed /\ [][NextStream]_vars

\* ------------------------------------------------------------------------
\* streamResponse
\* ------------------------------------------------------------------------
\* reader.read() rejects: no catch, finally releases the lock, the error
\* goes to the consumer; gen = [pc, readerLocked]
ReadRejectsSwallowed(gen) == [gen EXCEPT !.pc = "returned", !.readerLocked = FALSE]

ReadRejects(gen) == [gen EXCEPT !.pc = "threw", !.readerLocked = FALSE]

\* a chunk that stands for reader.read() rejecting instead of delivering
Failure == <<"read error">>

SRRead ==
  /\ pc = "yielding"
  /\ pos < Len(chunks)
  /\ chunks[pos + 1] # Failure
  /\ LET sr == StreamTurn([buffer |-> buffer, yielded |-> yielded], chunks[pos + 1]) IN
       /\ buffer' = sr.buffer
       /\ yielded' = sr.yielded
  /\ pos' = pos + 1
  /\ UNCHANGED <<chunks, messages, applied, pc, path, isLoading, abortControllerRef, aborted>>
  /\ UNCHANGED repairVars
  /\ UNCHANGED auxVars

SREnd ==
  /\ pc = "yielding"
  /\ pos = Len(chunks)
  /\ LET sr == StreamEnd([buffer |-> buffer, yielded |-> yielded]) IN
       /\ buffer' = sr.buffer
       /\ yielded' = sr.yielded
  /\ pc' = "returned"
  /\ readerLocked' = FALSE
  /\ UNCHANGED <<chunks, pos, messages, applied, path, isLoading, abortControllerRef, aborted>>
  /\ UNCHANGED repairVars
  /\ UNCHANGED <<now, draws, aggVars, fetches>>
  /\ UNCHANGED turnVars

\* await reader.read() rejects
SRReadFails ==
  /\ pc = "yielding"
  /\ pos < Len(chunks)
  /\ chunks[pos + 1] = Failure
  /\ LET gen == ReadRejects([pc |-> pc, readerLocked |-> readerLocked]) IN
       /\ pc' = gen.pc
       /\ readerLocked' = gen.readerLocked
  /\ UNCHANGED <<chunks, pos, buffer, yielded, messages, applied, path, isLoading,
                 abortControllerRef, aborted>>
  /\ UNCHANGED repairVars
  /\ UNCHANGED <<now, draws, aggVars, fetches>>
  /\ UNCHANGED turnVars

\* the consumer leaves its loop while the generator is suspended at the j-th
\* yield of a turn (or at the yield of the last buffer): return() runs finally
SRStop ==
  /\ pc = "yielding"
  /\ pos < Len(chunks) => chunks[pos + 1] # Failure
  /\ LET sr == [buffer |-> buffer, yielded |-> yielded]
         turn == IF pos < Len(chunks) THEN StreamTurn(sr, chunks[pos + 1]) ELSE StreamEnd(sr)
     IN /\ \E j \in 1..(Len(turn.yielded) - Len(yielded)) :
             yielded' = SubSeq(turn.yielded, 1, Len(yielded) + j)
        /\ buffer' = turn.buffer
  /\ pos' = IF pos < Len(chunks) THEN pos + 1 ELSE pos
  /\ pc' = "closed"
  /\ readerLocked' = FALSE
  /\ UNCHANGED <<chunks, messages, applied, path, isLoading, abortControllerRef, aborted>>
  /\ UNCHANGED repairVars
  /\ UNCHANGED <<now, draws, aggVars, fetches>>
  /\ UNCHANGED turnVars

InitParser ==
  /\ \E ls \in SeqsUpTo(LineTemplates, MaxLines), trailing \in BOOLEAN :
       chunks \in Chunkings(Payload(ls, trailing))
  /\ pos = 0
  /\ buffer = <<>>
  /\ messages = <<>>
  /\ applied = <<>>
  /\ yielded = <<>>
  /\ pc = "yielding"
  /\ path = "json"
  /\ isLoading = FALSE
  /\ abortControllerRef = 0
  /\ aborted = FALSE
  /\ RepairIdle
  /\ AuxIdle
  /\ readerLocked = TRUE

NextParser == SRRead \/ SREnd

SpecParser == InitParser /\ [][NextParser]_vars

\* streamResponse with a consumer that may stop early and a reader that may
\* fail: the body, then a rejected read or the end
ReaderLines ==
  { <<"{type:text,", "content:a}">>, <<"{type:answer,", "content:b}">>,
    <<"{type:text,">>, <<SP>> }

InitReader ==
  /\ \E ls \in SeqsUpTo(ReaderLines, MaxLines), trailing \in BOOLEAN :
       \E cs \in Chunkings(Payload(ls, trailing)) :
          chunks \in {cs, cs \o <<Failure>>}
  /\ pos = 0
  /\ buffer = <<>>
  /\ messages = <<>>
  /\ applied = <<>>
  /\ yielded = <<>>
  /\ pc = "yielding"
  /\ path = "json"
  /\ isLoading = FALSE
  /\ abortControllerRef = 0
  /\ aborted = FALSE
  /\ RepairIdle
  /\ AuxIdle
  /\ readerLocked = TRUE

NextReader == SRRead \/ SREnd \/ SRReadFails \/ SRStop

SpecReader == InitReader /\ [][NextReader]_vars

\* ------------------------------------------------------------------------
\* sendChatRequest: streamResponse feeding the aggregator
\* ------------------------------------------------------------------------
\* one turn of streamResponse's loop, each yielded event processed
SCRead ==
  /\ pc = "aggregating"
  /\ pos < Len(chunks)
  /\ LET lines == Split(buffer \o chunks[pos + 1])
         n == Len(lines)
         sc == Aggregate(SubSeq(lines, 1, n - 1),
                         [yielded |-> yielded, agg |-> agg, calls |-> onChunkCalls], now)
     IN /\ buffer' = lines[n]
        /\ yielded' = sc.yielded
        /\ agg' = sc.agg
        /\ onChunkCalls' = sc.calls
        /\ pc' = IF sc.agg.raised THEN "threw" ELSE pc
        /\ readerLocked' = IF sc.agg.raised THEN FALSE ELSE readerLocked
  /\ pos' = pos + 1
  /\ UNCHANGED <<chunks, messages, applied, path, isLoading, abortControllerRef, aborted>>
  /\ UNCHANGED repairVars
  /\ UNCHANGED <<now, draws, fetches>>
  /\ UNCHANGED turnVars

\* done: the rest of the buffer, then return aggregator.getResult()
SCEnd ==
  /\ pc = "aggregating"
  /\ pos = Len(chunks)
  /\ LET sc0 == [yielded |-> yielded, agg |-> agg, calls |-> onChunkCalls]
         sc == IF buffer # <<>> THEN Aggregate(<<buffer>>, sc0, now) ELSE sc0
     IN /\ yielded' = sc.yielded
        /\ agg' = sc.agg
        /\ onChunkCalls' = sc.calls
        /\ pc' = IF sc.agg.raised THEN "threw" ELSE "returned"
  /\ readerLocked' = FALSE
  /\ UNCHANGED <<chunks, pos, buffer, messages, applied, path, isLoading,
                 abortControllerRef, aborted>>
  /\ UNCHANGED repairVars
  /\ UNCHANGED <<now, draws, fetches>>
  /\ UNCHANGED turnVars

AggLines ==
  { <<"{type:answer,", DataKey, Obj, Close>>, <<"{type:answer,", "content:b}">>,
    <<"{type:thinking,", "data:{logs:[l]}}">>, <<"{type:error,", "data:{message:m}}">>,
    <<"{type:stream_start,", "data:{session_id:s}}">>,
    <<"{type:stream_end,", "data:{duration_ms:1}}">>, <<"{type:text,", "content:a}">> }

InitAggregator ==
  /\ \E ls \in SeqsUpTo(AggLines, MaxLines), trailing \in BOOLEAN :
       chunks \in Chunkings(Payload(ls, trailing))
  /\ pos = 0
  /\ buffer = <<>>
  /\ messages = <<>>
  /\ applied = <<>>
  /\ yielded = <<>>
  /\ pc = "aggregating"
  /\ path = "json"
  /\ isLoading = FALSE
  /\ abortControllerRef = 0
  /\ aborted = FALSE
  /\ RepairIdle
  /\ now \in 0..MaxNow
  /\ draws = <<>>
  /\ agg = AggReset
  /\ onChunkCalls = <<>>
  /\ fetches = <<>>
  /\ requests = <<>>
  /\ timers = <<>>
  /\ history = <<>>
  /\ currentChatId = 0
  /\ readerLocked = TRUE

NextAggregator == SCRead \/ SCEnd

SpecAggregator == InitAggregator /\ [][NextAggregator]_vars

\* sendChatRequest from its fetch: the response is ok, or it is not and
\* sendChatRequest throws
SCResponse ==
  /\ pc = "requesting"
  /\ \E ok \in BOOLEAN :
       /\ pc' = IF ok THEN "aggregating" ELSE "http error"
       /\ readerLocked' = ok
  /\ UNCHANGED <<chunks, pos, buffer, yielded, messages, applied, path, isLoading,
                 abortControllerRef, aborted>>
  /\ UNCHANGED repairVars
  /\ UNCHANGED <<now, draws, aggVars, fetches>>
  /\ UNCHANGED turnVars

InitChatRequest ==
  /\ \E ls \in SeqsUpTo(AggLines, MaxLines), trailing \in BOOLEAN :
       chunks \in Chunkings(Payload(ls, trailing))
  /\ pos = 0
  /\ buffer = <<>>
  /\ messages = <<>>
  /\ applied = <<>>
  /\ yielded = <<>>
  /\ pc = "requesting"
  /\ path = "json"
  /\ isLoading = FALSE
  /\ abortControllerRef = 0
  /\ aborted = FALSE
  /\ RepairIdle
  /\ now \in 0..MaxNow
  /\ draws = <<>>
  /\ agg = AggReset
  /\ onChunkCalls = <<>>
  /\ fetches = <<>>
  /\ requests = <<>>
  /\ timers = <<>>
  /\ history = <<>>
  /\ currentChatId = 0
  /\ readerLocked = FALSE

NextChatRequest == SCResponse \/ SCRead \/ SCEnd

SpecChatRequest == InitChatRequest /\ [][NextChatRequest]_vars

\* ------------------------------------------------------------------------
\* Bodies with events of a type that neither program knows, read by
\* processStream or by sendChatRequest
\* ------------------------------------------------------------------------
UnknownLines ==
  { <<"{type:custom,", "content:a}">>, <<"{type:custom,", DataKey, Obj, Close>>,
    <<"{type:answer,", DataKey, Obj, Close>>, <<"{type:table,", "data:{rows:r}}">> }

InitUnknown ==
  /\ \E ls \in SeqsUpTo(UnknownLines, MaxLines), trailing \in BOOLEAN :
       chunks \in Chunkings(Payload(ls, trailing))
  /\ pos = 0
  /\ buffer = <<>>
  /\ applied = <<>>
  /\ yielded = <<>>
  /\ \/ /\ pc = "reading"
        /\ messages = <<GreetingMsg, UserMsg("q", UserId), AssistantMsg(NewMsgId)>>
        /\ isLoading = TRUE
        /\ abortControllerRef = Controller
     \/ /\ pc = "aggregating"
        /\ messages = <<>>
        /\ isLoading = FALSE
        /\ abortControllerRef = 0
  /\ path = "json"
  /\ aborted = FALSE
  /\ RepairIdle
  /\ AuxIdle
  /\ readerLocked = (pc = "aggregating")

NextUnknown == PSRead \/ PSEnd \/ SCRead \/ SCEnd

SpecUnknown == InitUnknown /\ [][NextUnknown]_vars

\* ------------------------------------------------------------------------
\* Bodies with events of structured types, read by processStream or by
\* sendChatRequest
\* ------------------------------------------------------------------------
StructuredLines ==
  { <<"{type:table,", "data:{rows:r}}">>, <<"{type:process_steps,", "data:{steps:[p]}}">>,
    <<"{type:process_steps,", "data:{steps:[q]}}">>, <<"{type:text,", "content:a}">> }

InitStructured ==
  /\ \E ls \in SeqsUpTo(StructuredLines, MaxLines), trailing \in BOOLEAN :
       chunks \in Chunkings(Payload(ls, trailing))
  /\ pos = 0
  /\ buffer = <<>>
  /\ applied = <<>>
  /\ yielded = <<>>
  /\ \/ /\ pc = "reading"
        /\ messages = <<GreetingMsg, UserMsg("q", UserId), AssistantMsg(NewMsgId)>>
        /\ isLoading = TRUE
        /\ abortControllerRef = Controller
     \/ /\ pc = "aggregating"
        /\ messages = <<>>
        /\ isLoading = FALSE
        /\ abortControllerRef = 0
  /\ path = "json"
  /\ aborted = FALSE
  /\ RepairIdle
  /\ AuxIdle
  /\ readerLocked = (pc = "aggregating")

SpecStructured == InitStructured /\ [][NextUnknown]_vars

\* ------------------------------------------------------------------------
\* Bodies with expert_debug events, read by processStream
\* ------------------------------------------------------------------------
ExpertLines ==
  { <<"{type:expert_debug,", DataKey, Obj, Close>>,
    <<"{type:expert_debug,", "data:{message:m}}">>,
    <<"{type:text,", "content:a}">>, <<"{type:table,", "data:{rows:r}}">> }

InitExpert ==
  /\ \E ls \in SeqsUpTo(ExpertLines, MaxLines), trailing \in BOOLEAN :
       chunks \in Chunkings(Payload(ls, trailing))
  /\ pos = 0
  /\ buffer = <<>>
  /\ messages = <<GreetingMsg, UserMsg("q", UserId), AssistantMsg(NewMsgId)>>
  /\ applied = <<>>
  /\ yielded = <<>>
  /\ pc = "reading"
  /\ path = "json"
  /\ isLoading = TRUE
  /\ abortControllerRef = Controller
  /\ aborted = FALSE
  /\ RepairIdle
  /\ AuxIdle
  /\ readerLocked = FALSE

SpecExpert == InitExpert /\ [][NextStream]_vars

\* ------------------------------------------------------------------------
\* Bodies of event lines with empty and white-space lines among them, read
\* by processStream or by streamResponse
\* ------------------------------------------------------------------------
SpacedLines ==
  { <<"{type:text,", "content:a}">>, <<"{type:error,", "data:{message:m}}">>,
    <<"{type:table,", "data:{rows:r}}">>, <<>>, <<SP>> }

InitSpaced ==
  /\ \E ls \in SeqsUpTo(SpacedLines, MaxLines), trailing \in BOOLEAN :
       chunks \in Chunkings(Payload(ls, trailing))
  /\ pos = 0
  /\ buffer = <<>>
  /\ applied = <<>>
  /\ yielded = <<>>
  /\ \/ /\ pc = "reading"
        /\ messages = <<GreetingMsg, UserMsg("q", UserId), AssistantMsg(NewMsgId)>>
        /\ isLoading = TRUE
        /\ abortControllerRef = Controller
     \/ /\ pc = "yielding"
        /\ messages = <<>>
        /\ isLoading = FALSE
        /\ abortControllerRef = 0
  /\ path = "json"
  /\ aborted = FALSE
  /\ RepairIdle
  /\ AuxIdle
  /\ readerLocked = (pc = "yielding")

NextSpaced == PSRead \/ PSEnd \/ SRRead \/ SREnd

SpecSpaced == InitSpaced /\ [][NextSpaced]_vars

\* ------------------------------------------------------------------------
\* Bodies with lines that are JSON but no object, read by processStream or
\* by sendChatRequest
\* ------------------------------------------------------------------------
ScalarLines ==
  { <<Null>>, <<Num>>, <<"{type:text,", "content:a}">>,
    <<"{type:answer,", DataKey, Obj, Close>> }

InitScalar ==
  /\ \E ls \in SeqsUpTo(ScalarLines, MaxLines), trailing \in BOOLEAN :
       chunks \in Chunkings(Payload(ls, trailing))
  /\ pos = 0
  /\ buffer = <<>>
  /\ applied = <<>>
  /\ yielded = <<>>
  /\ \/ /\ pc = "reading"
        /\ messages = <<GreetingMsg, UserMsg("q", UserId), AssistantMsg(NewMsgId)>>
        /\ isLoading = TRUE
        /\ abortControllerRef = Controller
     \/ /\ pc = "aggregating"
        /\ messages = <<>>
        /\ isLoading = FALSE
        /\ abortControllerRef = 0
  /\ path = "json"
  /\ aborted = FALSE
  /\ RepairIdle
  /\ AuxIdle
  /\ readerLocked = (pc = "aggregating")

SpecScalar == InitScalar /\ [][NextUnknown]_vars

\* ------------------------------------------------------------------------
\* sendMessage and stopGeneration, one request
\* ------------------------------------------------------------------------
OfflineText == "(!) offline"
BusyText == "(!) server busy"
NoConnectText == "(!) cannot connect"
RequestFailedText == "(!) request failed"

\* the message chosen by the catch block of sendMessage
ErrMsgFor(online, error) ==
  IF ~online THEN OfflineText
  ELSE IF error = "Server error" THEN BusyText
  ELSE IF error = "TypeError: fetch" THEN NoConnectText
  ELSE RequestFailedText

\* an updater that replaces the content by the error message
FailUpdateReplaces(msg, errMsg) ==
  [msg EXCEPT !.content = errMsg, !.isComplete = TRUE]

\* the updater of the catch block
FailUpdate(msg, errMsg) ==
  [msg EXCEPT !.content = IF @ # "" THEN @ \o "\n\n" \o errMsg ELSE errMsg,
              !.isComplete = TRUE]

\* catch (not an AbortError), then finally
Fail(error) ==
  /\ \E online \in BOOLEAN :
       messages' = MapMsg(messages, NewMsgId,
                          [m \in Elems(messages) |-> FailUpdate(m, ErrMsgFor(online, error))])
  /\ isLoading' = FALSE
  /\ abortControllerRef' = 0
  /\ pc' = "failed"

\* a stopGeneration that always writes the stopped-generation text
StopUpdateOverwrites(msg) ==
  IF msg.role = "assistant" /\ ~msg.isComplete
  THEN [msg EXCEPT !.isComplete = TRUE, !.content = StoppedText]
  ELSE msg

\* the updater of stopGeneration
StopUpdate(msg) ==
  IF msg.role = "assistant" /\ ~msg.isComplete
  THEN [msg EXCEPT !.isComplete = TRUE,
                   !.content = IF @ # "" THEN @ ELSE StoppedText]
  ELSE msg

\* the URL fetched on a path
Endpoint(p) ==
  CASE p = "image" -> "/api/v1/chat/chat-with-media"
    [] p = "json" -> "/api/v1/chat"
    [] p = "legacy" -> "/chat_stream"

Settled(p, outcome) == Append(fetches, [url |-> Endpoint(p), outcome |-> outcome])

\* sendMessage up to its first await
SendMessage ==
  /\ pc = "idle"
  /\ ~isLoading
  /\ \E hasImage \in BOOLEAN : path' = IF hasImage THEN "image" ELSE "json"
  /\ messages' = messages \o <<UserMsg("q", UserId), AssistantMsg(NewMsgId)>>
  /\ isLoading' = TRUE
  /\ abortControllerRef' = Controller
  /\ pc' = "fetch"
  /\ UNCHANGED <<chunks, pos, buffer, applied, yielded, aborted>>
  /\ UNCHANGED repairVars
  /\ UNCHANGED auxVars

\* the first fetch settles: uploadImage (no signal) or the JSON endpoint
FetchSettles ==
  /\ pc = "fetch"
  /\ ~(Signalled /\ aborted)
  /\ \E outcome \in {"ok", "not ok", "rejected"} :
       /\ fetches' = Settled(path, outcome)
       /\ CASE outcome = "ok" ->
                 /\ pc' = "reading"
                 /\ UNCHANGED <<messages, isLoading, abortControllerRef, path>>
            [] outcome = "not ok" /\ path = "json" ->
                 /\ pc' = "legacyFetch"
                 /\ path' = "legacy"
                 /\ UNCHANGED <<messages, isLoading, abortControllerRef>>
            [] outcome = "not ok" /\ path = "image" ->
                 Fail("upload failed") /\ UNCHANGED path
            [] OTHER ->
                 Fail("TypeError: fetch") /\ UNCHANGED path
  /\ UNCHANGED <<chunks, pos, buffer, applied, yielded, aborted>>
  /\ UNCHANGED repairVars
  /\ UNCHANGED <<now, draws, aggVars>>
  /\ UNCHANGED turnVars
  /\ UNCHANGED lockVars

\* the fetch of /chat_stream settles
LegacySettles ==
  /\ pc = "legacyFetch"
  /\ ~aborted
  /\ \E outcome \in {"ok", "not ok", "rejected"} :
       /\ fetches' = Settled(path, outcome)
       /\ CASE outcome = "ok" ->
                 pc' = "reading" /\ UNCHANGED <<messages, isLoading, abortControllerRef>>
            [] outcome = "not ok" -> Fail("Server error")
            [] OTHER -> Fail("TypeError: fetch")
  /\ UNCHANGED <<chunks, pos, buffer, applied, yielded, path, aborted>>
  /\ UNCHANGED repairVars
  /\ UNCHANGED <<now, draws, aggVars>>
  /\ UNCHANGED turnVars
  /\ UNCHANGED lockVars

\* reader.read() rejects with a transport error
ReadFails ==
  /\ pc = "reading"
  /\ ~(Signalled /\ aborted)
  /\ Fail("network error")
  /\ UNCHANGED <<chunks, pos, buffer, applied, yielded, path, aborted>>
  /\ UNCHANGED repairVars
  /\ UNCHANGED auxVars

\* the stop button, shown while isLoading
StopGeneration ==
  /\ isLoading
  /\ aborted' = (aborted \/ abortControllerRef # 0)
  /\ abortControllerRef' = 0
  /\ isLoading' = FALSE
  /\ messages' = [i \in 1..Len(messages) |-> StopUpdate(messages[i])]
  /\ UNCHANGED <<chunks, pos, buffer, applied, yielded, pc, path>>
  /\ UNCHANGED repairVars
  /\ UNCHANGED auxVars

\* the pending fetch or read rejects with AbortError: catch returns, then finally
AbortRejects ==
  /\ pc \in {"fetch", "legacyFetch", "reading"}
  /\ Signalled
  /\ aborted
  /\ pc' = "aborted"
  /\ isLoading' = FALSE
  /\ abortControllerRef' = 0
  /\ UNCHANGED <<chunks, pos, buffer, messages, applied, yielded, path, aborted>>
  /\ UNCHANGED repairVars
  /\ UNCHANGED auxVars

AppLines == { <<"{type:text,", "content:a}">>, <<"{type:answer,", "content:b}">> }

InitApp ==
  /\ \E ls \in SeqsUpTo(AppLines, MaxLines - 1) : chunks \in Chunkings(Payload(ls, TRUE))
  /\ pos = 0
  /\ buffer = <<>>
  /\ messages = <<GreetingMsg>>
  /\ applied = <<>>
  /\ yielded = <<>>
  /\ pc = "idle"
  /\ path = "none"
  /\ isLoading = FALSE
  /\ abortControllerRef = 0
  /\ aborted = FALSE
  /\ RepairIdle
  /\ AuxIdle
  /\ readerLocked = FALSE

NextApp ==
  \/ SendMessage
  \/ FetchSettles
  \/ LegacySettles
  \/ PSRead
  \/ PSEnd
  \/ ReadFails
  \/ StopGeneration
  \/ AbortRejects

SpecApp == InitApp /\ [][NextApp]_vars

\* ------------------------------------------------------------------------
\* A conversation: sendMessage from the input box and from the deferred
\* re-sends of submitEdit and regenerateAnswer, stopGeneration, and the
\* requests in flight.  A handler run by the user is the one of the latest
\* render and reads the current state; the sendMessage run by a timer is the
\* one of the render in which the timer was set, and reads the messages and
\* isLoading of that render.
\* ------------------------------------------------------------------------
singleVars == <<chunks, pos, buffer, applied, yielded, pc, path, aborted, readerLocked>>

\* the body of every response, as the chunks its reader delivers
TurnChunks == << <<"{type:text,", "content:a}", NL>> >>

\* the ids of the k-th sendMessage call: userMessage.id and newMsgId
UserIdOf(k) == 2 * k - 1
MsgIdOf(k) == 2 * k

\* input.trim() of the input box, and editingContent.trim() of the edit box
InputText == "q"
EditedText == "e"

\* the effect on [messages, currentChatId]: the item of the current chat
\* gets the messages
Synced(h, chat, msgs) ==
  [i \in 1..Len(h) |-> IF h[i].id = chat THEN [h[i] EXCEPT !.messages = msgs] ELSE h[i]]

\* a render in which no handler has set history or currentChatId
SyncHistory ==
  /\ currentChatId' = currentChatId
  /\ history' = Synced(history, currentChatId, messages')

\* createHistoryItem: the id is Date.now(), here the number of the chat
NewChatId == Len(history) + 1

\* sendMessage(text) past its guard, up to the first await, on the messages
\* and the currentChatId it sees
StartRequest(seen, p, text, chat) ==
  LET k == Len(requests) + 1
      userMessage == UserMsg(text, UserIdOf(k))
      newItem == [id |-> NewChatId, messages |-> Append(seen, userMessage)]
  IN
  /\ messages' = seen \o <<userMessage, AssistantMsg(MsgIdOf(k))>>
  /\ isLoading' = TRUE
  /\ abortControllerRef' = k
  /\ requests' = Append(requests,
                        [id |-> MsgIdOf(k), path |-> p, pc |-> "fetch", pos |-> 0,
                         buffer |-> <<>>, aborted |-> FALSE])
  /\ currentChatId' = IF chat = 0 THEN NewChatId ELSE currentChatId
  /\ history' = Synced(IF chat = 0 THEN <<newItem>> \o history ELSE history,
                       currentChatId', messages')

\* the send button, the Enter key or a quick reply
UserSends ==
  /\ ~isLoading
  /\ Len(requests) < MaxRequests
  /\ \E hasImage \in BOOLEAN :
       StartRequest(messages, IF hasImage THEN "image" ELSE "json", InputText,
                    currentChatId)
  /\ UNCHANGED <<timers, now, draws, aggVars, fetches>>
  /\ UNCHANGED singleVars
  /\ UNCHANGED repairVars

\* what the arrow function handed to setTimeout closes over: the messages,
\* isLoading and currentChatId of the render, the handler that set it with
\* its index argument, and the text to send
Closure(handler, idx, text) ==
  [messages |-> messages, isLoading |-> isLoading, currentChatId |-> currentChatId,
   handler |-> handler, idx |-> idx, text |-> text]

\* submitEdit(msgIdx) on a user message
SubmitEdit ==
  /\ Len(timers) < MaxTimers
  /\ \E msgIdx \in 1..Len(messages) :
       /\ messages[msgIdx].role = "user"
       /\ messages' = SubSeq(messages, 1, msgIdx - 1)
       /\ timers' = Append(timers, Closure("submitEdit", msgIdx, EditedText))
  /\ UNCHANGED <<isLoading, abortControllerRef, requests, now, draws, aggVars, fetches>>
  /\ SyncHistory
  /\ UNCHANGED singleVars
  /\ UNCHANGED repairVars

\* the index of the nearest user message before position k, or 0
RECURSIVE UserBefore(_, _)
UserBefore(msgs, k) ==
  IF k = 0 THEN 0
  ELSE IF msgs[k].role = "user" THEN k
  ELSE UserBefore(msgs, k - 1)

\* regenerateAnswer(aiMsgIdx): the button of a complete answer, disabled
\* while isLoading
RegenerateAnswer ==
  /\ ~isLoading
  /\ Len(timers) < MaxTimers
  /\ \E aiMsgIdx \in 1..Len(messages) :
       /\ messages[aiMsgIdx].role = "assistant"
       /\ messages[aiMsgIdx].isComplete
       /\ messages[aiMsgIdx].id # 0
       /\ UserBefore(messages, aiMsgIdx - 1) # 0
       /\ messages' = SubSeq(messages, 1, UserBefore(messages, aiMsgIdx - 1))
       /\ timers' = Append(timers,
                           Closure("regenerateAnswer", aiMsgIdx,
                                   messages[UserBefore(messages, aiMsgIdx - 1)].content))
  /\ UNCHANGED <<isLoading, abortControllerRef, requests, now, draws, aggVars, fetches>>
  /\ SyncHistory
  /\ UNCHANGED singleVars
  /\ UNCHANGED repairVars

\* 50 ms later: sendMessage of the render that set the timer
TimerFires ==
  /\ timers # <<>>
  /\ timers' = Tail(timers)
  /\ IF Head(timers).isLoading
     THEN UNCHANGED <<messages, isLoading, abortControllerRef, requests, chatVars>>
     ELSE /\ Len(requests) < MaxRequests
          /\ StartRequest(Head(timers).messages, "json", Head(timers).text,
                          Head(timers).currentChatId)
  /\ UNCHANGED <<now, draws, aggVars, fetches>>
  /\ UNCHANGED singleVars
  /\ UNCHANGED repairVars

\* the finally block of sendMessage
Finally ==
  /\ isLoading' = FALSE
  /\ abortControllerRef' = 0

Cancelled(r) == r.path = "json" /\ r.aborted

\* the fetch of request k settles: ok, or rejected with a TypeError
TurnFetchSettles(k) ==
  /\ requests[k].pc = "fetch"
  /\ ~Cancelled(requests[k])
  /\ \E ok \in BOOLEAN :
       IF ok
       THEN /\ requests' = [requests EXCEPT ![k].pc = "reading"]
            /\ UNCHANGED <<messages, isLoading, abortControllerRef>>
       ELSE /\ requests' = [requests EXCEPT ![k].pc = "failed"]
            /\ \E online \in BOOLEAN :
                 messages' =
                   MapMsg(messages, requests[k].id,
                          [m \in Elems(messages) |->
                             FailUpdate(m, ErrMsgFor(online, "TypeError: fetch"))])
            /\ Finally
  /\ UNCHANGED <<timers, now, draws, aggVars, fetches>>
  /\ SyncHistory
  /\ UNCHANGED singleVars
  /\ UNCHANGED repairVars

\* a turn of the read loop of request k
TurnRead(k) ==
  /\ requests[k].pc = "reading"
  /\ ~Cancelled(requests[k])
  /\ requests[k].pos < Len(TurnChunks)
  /\ LET st == ReadTurn([buffer |-> requests[k].buffer, messages |-> messages,
                         applied |-> <<>>, now |-> now, draws |-> draws,
                         threw |-> FALSE],
                        TurnChunks[requests[k].pos + 1], requests[k].id)
     IN /\ messages' = st.messages
        /\ draws' = st.draws
        /\ requests' = [requests EXCEPT ![k].buffer = st.buffer, ![k].pos = @ + 1]
  /\ UNCHANGED <<isLoading, abortControllerRef, timers, now, aggVars, fetches>>
  /\ SyncHistory
  /\ UNCHANGED singleVars
  /\ UNCHANGED repairVars

\* the end of the stream of request k, then finally
TurnEnd(k) ==
  /\ requests[k].pc = "reading"
  /\ ~Cancelled(requests[k])
  /\ requests[k].pos = Len(TurnChunks)
  /\ LET st == EndOfStream([buffer |-> requests[k].buffer, messages |-> messages,
                            applied |-> <<>>, now |-> now, draws |-> draws,
                            threw |-> FALSE],
                           requests[k].id)
     IN /\ messages' = st.messages
        /\ draws' = st.draws
        /\ requests' = [requests EXCEPT ![k].buffer = st.buffer, ![k].pc = "done"]
  /\ Finally
  /\ UNCHANGED <<timers, now, aggVars, fetches>>
  /\ SyncHistory
  /\ UNCHANGED singleVars
  /\ UNCHANGED repairVars

\* the pending fetch or read of request k rejects with AbortError
TurnAbortRejects(k) ==
  /\ requests[k].pc \in {"fetch", "reading"}
  /\ Cancelled(requests[k])
  /\ requests' = [requests EXCEPT ![k].pc = "aborted"]
  /\ Finally
  /\ UNCHANGED <<messages, timers, now, draws, aggVars, fetches>>
  /\ SyncHistory
  /\ UNCHANGED singleVars
  /\ UNCHANGED repairVars

\* stopGeneration
TurnStop ==
  /\ isLoading
  /\ requests' = IF abortControllerRef # 0
                 THEN [requests EXCEPT ![abortControllerRef].aborted = TRUE]
                 ELSE requests
  /\ abortControllerRef' = 0
  /\ isLoading' = FALSE
  /\ messages' = [i \in 1..Len(messages) |-> StopUpdate(messages[i])]
  /\ UNCHANGED <<timers, now, draws, aggVars, fetches>>
  /\ SyncHistory
  /\ UNCHANGED singleVars
  /\ UNCHANGED repairVars

InitTurns ==
  /\ messages = <<GreetingMsg>>
  /\ isLoading = FALSE
  /\ abortControllerRef = 0
  /\ chunks = <<>>
  /\ pos = 0
  /\ buffer = <<>>
  /\ applied = <<>>
  /\ yielded = <<>>
  /\ pc = "idle"
  /\ path = "none"
  /\ aborted = FALSE
  /\ RepairIdle
  /\ AuxIdle
  /\ readerLocked = FALSE

NextTurns ==
  \/ UserSends
  \/ SubmitEdit
  \/ RegenerateAnswer
  \/ TimerFires
  \/ TurnStop
  \/ \E k \in 1..Len(requests) :
       \/ TurnFetchSettles(k)
       \/ TurnRead(k)
       \/ TurnEnd(k)
       \/ TurnAbortRejects(k)

SpecTurns == InitTurns /\ [][NextTurns]_vars

\* ------------------------------------------------------------------------
\* A conversation with the chat list: the user starts a new chat or loads a
\* chat of the history while requests are in flight
\* ------------------------------------------------------------------------
\* startNewChat, also as called by switchUserType
StartNewChat ==
  /\ messages' = <<GreetingMsg>>
  /\ currentChatId' = 0
  /\ UNCHANGED <<history, isLoading, abortControllerRef, requests, timers>>
  /\ UNCHANGED <<now, draws, aggVars, fetches>>
  /\ UNCHANGED singleVars
  /\ UNCHANGED repairVars

\* loadChat(chat) on an item of the sidebar
LoadChat ==
  /\ \E i \in 1..Len(history) :
       /\ currentChatId' = history[i].id
       /\ messages' = history[i].messages
  /\ UNCHANGED <<history, isLoading, abortControllerRef, requests, timers>>
  /\ UNCHANGED <<now, draws, aggVars, fetches>>
  /\ UNCHANGED singleVars
  /\ UNCHANGED repairVars

\* the fetch or the read of a request settles
Transport ==
  \E k \in 1..Len(requests) :
     \/ TurnFetchSettles(k)
     \/ TurnRead(k)
     \/ TurnEnd(k)
     \/ TurnAbortRejects(k)

\* the requests of a conversation with the chat list are MaxChatRequests
NextChats ==
  \/ Len(requests) < MaxChatRequests /\ UserSends
  \/ TurnStop
  \/ StartNewChat
  \/ LoadChat
  \/ Transport

\* every pending fetch and read settles in the end
SpecChats == InitTurns /\ [][NextChats]_vars /\ WF_vars(Transport)

\* ------------------------------------------------------------------------
\* processStream with the clock running and Math.random() drawing
\* ------------------------------------------------------------------------
\* a millisecond passes
Tick ==
  /\ pc = "reading"
  /\ now < MaxNow
  /\ now' = now + 1
  /\ UNCHANGED <<draws, aggVars, fetches>>
  /\ UNCHANGED turnVars
  /\ UNCHANGED lockVars
  /\ UNCHANGED streamVars
  /\ UNCHANGED repairVars

BlockLines ==
  { <<"{type:table,", "data:{rows:r}}">>, <<"{type:text,", "content:a}">> }

InitBlocks ==
  /\ \E ls \in SeqsUpTo(BlockLines, MaxLines), trailing \in BOOLEAN :
       chunks \in Chunkings(Payload(ls, trailing))
  /\ pos = 0
  /\ buffer = <<>>
  /\ messages = <<GreetingMsg, UserMsg("q", UserId), AssistantMsg(NewMsgId)>>
  /\ applied = <<>>
  /\ yielded = <<>>
  /\ pc = "reading"
  /\ path = "json"
  /\ isLoading = TRUE
  /\ abortControllerRef = Controller
  /\ aborted = FALSE
  /\ RepairIdle
  /\ now = 0
  /\ draws \in [1..MaxLines -> 0..(RandomScale - 1)]
  /\ agg = AggReset
  /\ onChunkCalls = <<>>
  /\ fetches = <<>>
  /\ requests = <<>>
  /\ timers = <<>>
  /\ history = <<>>
  /\ currentChatId = 0
  /\ readerLocked = FALSE

NextBlocks == PSRead \/ PSEnd \/ Tick

SpecBlocks == InitBlocks /\ [][NextBlocks]_vars

\* ------------------------------------------------------------------------
\* Properties of the decoders
\* ------------------------------------------------------------------------
Response == messages[CHOOSE k \in 1..Len(messages) : messages[k].id = NewMsgId]

body == Flatten(chunks)

\* the lines of a body: the pieces between newlines, the last one when not empty
LinesOf(p) ==
  LET ls == Split(p) IN
  IF ls[Len(ls)] = <<>> THEN SubSeq(ls, 1, Len(ls) - 1) ELSE ls

IsEventLine(line) == LET r == JSONparse(line) IN r.ok /\ r.value.type # Undef

WellFormed(p) == LET ls == LinesOf(p) IN \A i \in 1..Len(ls) : IsEventLine(ls[i])

EndsWithNewline(p) == p # <<>> /\ p[Len(p)] = NL

\* what a well-formed body is to leave in content: the fragments of its text
\* and answer lines, and the marker of each newline-terminated error line
RECURSIVE ExpectedContent(_, _)
ExpectedContent(ls, terminated) ==
  IF ls = <<>> THEN ""
  ELSE LET e == JSONparse(Head(ls)).value
           piece ==
             CASE e.type \in {"text", "answer"} -> Fragment(e)
               [] e.type = "error" /\ (Len(ls) > 1 \/ terminated) ->
                    WarnMark \o ErrorText(e)
               [] OTHER -> ""
       IN piece \o ExpectedContent(Tail(ls), terminated)

HasErrorLine(p) ==
  LET ls == LinesOf(p) IN \E i \in 1..Len(ls) : JSONparse(ls[i]).value.type = "error"

\* C1: for a well-formed body, in any chunking, the content of the response at
\* the end of processStream is the concatenation, in line order, of the
\* fragments of its text and answer events (with the markers of its error
\* events, hence nothing else when it carries no error event)
C1_ContentIsConcatenation ==
  (pc = "done" /\ WellFormed(body)) =>
     Response.content = ExpectedContent(LinesOf(body), EndsWithNewline(body))

C1_Witness ==
  /\ pc = "done"
  /\ WellFormed(body)
  /\ ~HasErrorLine(body)
  /\ Len(chunks) = 2
  /\ chunks[1][Len(chunks[1])] \in Heads
  /\ Response.content = "ab"

\* the final message state that chunk-boundary independence is about
View(m) ==
  [content |-> m.content, thinking |-> m.thinking, expertInfo |-> m.expertInfo,
   structuredBlocks |->
     [i \in 1..Len(m.structuredBlocks) |->
        [type |-> m.structuredBlocks[i].type, data |-> m.structuredBlocks[i].data]]]

InitialDecoderState ==
  [buffer |-> <<>>,
   messages |-> <<GreetingMsg, UserMsg("q", UserId), AssistantMsg(NewMsgId)>>,
   applied |-> <<>>, now |-> 0, draws |-> <<>>, threw |-> FALSE]

\* processStream on the body delivered as one chunk
WholeRun(p) ==
  EndOfStream(IF p = <<>> THEN InitialDecoderState
              ELSE ReadTurn(InitialDecoderState, p, NewMsgId), NewMsgId)

\* C2: every chunking of one body gives the final message state that the
\* body gives when it arrives as a single chunk
C2_ChunkIndependent ==
  pc = "done" => View(Response) = View(WholeRun(body).messages[3])

\* the events of the well-formed event lines of a body, in line order
RECURSIVE GoodEvents(_)
GoodEvents(ls) ==
  IF ls = <<>> THEN <<>>
  ELSE (IF IsEventLine(Head(ls)) THEN <<JSONparse(Head(ls)).value>> ELSE <<>>)
         \o GoodEvents(Tail(ls))

Count(seq, e) == Cardinality({i \in 1..Len(seq) : seq[i] = e})

AppliedEvents == [i \in 1..Len(applied) |-> applied[i].event]

\* C5: a malformed line never causes a well-formed line to be lost: at the
\* end of the stream every well-formed event line of the body has been
\* decoded and handed to the message update
C5_NoEventLineLost ==
  pc = "done" =>
     LET good == GoodEvents(LinesOf(body)) IN
     \A i \in 1..Len(good) : Count(AppliedEvents, good[i]) >= Count(good, good[i])

\* C6: the buffer never holds more than one carried-over malformed line in
\* addition to the incomplete trailing piece
C6_CarryOverBounded == Len(Split(buffer)) <= 2

\* the applied events that were parsed from one line of the body
AppliedLines == SelectSeq(applied, LAMBDA a : \A i \in 1..Len(a.text) : a.text[i] # NL)

\* C7: the events applied for well-formed event lines are exactly the events
\* of the body's well-formed event lines, once each and in line order
C7_ExactlyOnceInOrder ==
  pc = "done" =>
     [i \in 1..Len(AppliedLines) |-> AppliedLines[i].event] = GoodEvents(LinesOf(body))

\* the response has reached a terminal lifecycle value
Terminal ==
  \/ \E i \in 1..Len(applied) : applied[i].event.type = "stream_end"
  \/ Response.isComplete

\* C8: once the response is terminal, no later event changes its content,
\* thinking, expertInfo or structuredBlocks
C8_SealedOnceTerminal ==
  [][Terminal => View(Response)' = View(Response)]_vars

\* the list a thinking event carries in data.logs
EventLogs(e) == IF e.data.tag = "logs" THEN JsArray(<<"l">>) ELSE JsUndefined

\* C13: when a turn of the read loop applies a thinking event last, the
\* thinking of the response is the list the event carries in data.logs
C13_ThinkingIsLatestLogs ==
  [][(/\ pc' = "reading"
      /\ Len(applied') > Len(applied)
      /\ applied'[Len(applied')].event.type = "thinking") =>
        Response'.thinking = EventLogs(applied'[Len(applied')].event)]_vars

\* what the aggregator is to hold for the events it was given: an entry of
\* errors for each error event, and in answer the fragments of the answer
\* events and the marker of each error event, in arrival order
RECURSIVE ExpectedErrors(_)
ExpectedErrors(es) ==
  IF es = <<>> THEN <<>>
  ELSE (IF Head(es).type = "error"
        THEN <<[message |-> Head(es).data.message, code |-> Undef]>> ELSE <<>>)
         \o ExpectedErrors(Tail(es))

RECURSIVE ExpectedAnswer(_)
ExpectedAnswer(es) ==
  IF es = <<>> THEN ""
  ELSE (CASE Head(es).type = "answer" -> OrJs(Head(es).data.content, "")
          [] Head(es).type = "error" -> WarnMark \o ErrorText(Head(es))
          [] OTHER -> "")
         \o ExpectedAnswer(Tail(es))

\* C14: each error event adds {message, code} to errors and adds a marker
\* with its message to the text, at the place where it arrived
C14_ErrorListedAndMarked ==
  pc = "returned" =>
     /\ agg.errors = ExpectedErrors(yielded)
     /\ agg.answer = ExpectedAnswer(yielded)

\* the fragments of the text and answer events, in arrival order
RECURSIVE ExpectedFragments(_)
ExpectedFragments(es) ==
  IF es = <<>> THEN ""
  ELSE (IF Head(es).type \in {"text", "answer"} THEN Fragment(Head(es)) ELSE "")
         \o ExpectedFragments(Tail(es))

\* C21: process throws on no event, and the aggregated answer is the
\* fragments of the text and answer events it was given, in arrival order,
\* the fragment being the event's content member
C21_AnswerIsFragments ==
  /\ pc # "threw"
  /\ ~agg.raised
  /\ agg.answer = ExpectedFragments(yielded)

\* the aggregator after the events, processed in order at time t
RECURSIVE ProcessAll(_, _, _)
ProcessAll(es, a, t) ==
  IF es = <<>> THEN a ELSE ProcessAll(Tail(es), process(a, Head(es), t), t)

\* C35: onChunk is called once for each decoded event, in decode order,
\* with the aggregate of the events decoded up to it; when the response is
\* not ok nothing is processed and onChunk is not called; the value returned
\* is the aggregate of the last call
C35_OnChunkPerEvent ==
  /\ Len(onChunkCalls) = Len(yielded)
  /\ \A i \in 1..Len(onChunkCalls) :
       /\ i <= Len(yielded)
       /\ onChunkCalls[i].chunk = yielded[i]
       /\ onChunkCalls[i].result =
            getResult(ProcessAll(SubSeq(yielded, 1, i), AggReset, now))
  /\ pc = "http error" => (yielded = <<>> /\ onChunkCalls = <<>> /\ agg = AggReset)
  /\ (pc = "returned" /\ onChunkCalls # <<>>) =>
       getResult(agg) = onChunkCalls[Len(onChunkCalls)].result

\* the blocks of the structured events, in arrival order
StructuredEvents(es) == SelectSeq(es, LAMBDA e : e.type \in STRUCTURED_TYPES)

ExpectedBlocks(es) ==
  [i \in 1..Len(StructuredEvents(es)) |->
     [type |-> StructuredEvents(es)[i].type, data |-> StructuredEvents(es)[i].data]]

\* C22: the structured blocks of the response are the blocks of the
\* structured events received, one each, in arrival order; and the
\* aggregator keeps what each process_steps event carried: a later event
\* of the type replaces nothing
C22_OneBlockPerEvent ==
  /\ pc \in {"reading", "done"} =>
       View(Response).structuredBlocks = ExpectedBlocks(AppliedEvents)
  /\ pc \in {"aggregating", "returned"} =>
       \A i \in 1..Len(yielded) :
          yielded[i].type = "process_steps" =>
             \E k \in 1..Len(agg.processSteps) :
                agg.processSteps[k] = StepsOf(yielded[i].data)[1]

\* the text the reader has delivered, and its newline-terminated lines
Delivered == Flatten(SubSeq(chunks, 1, pos))

CompleteLines(p) == LET ls == Split(p) IN SubSeq(ls, 1, Len(ls) - 1)

ReadRejectStep == pc = "yielding" /\ pos < Len(chunks) /\ chunks[pos + 1] = Failure

LastExpert(es) ==
  LET at == {i \in 1..Len(es) : es[i].type = "expert_debug"} IN
  IF at = {} THEN NoData ELSE es[CHOOSE i \in at : \A j \in at : j <= i].data

\* C27: expertInfo is the data of the last expert_debug event received and
\* nothing else; a step that handles expert_debug events only leaves
\* content, thinking and structuredBlocks as they were
C27_ExpertInfoIsLatest ==
  /\ [](Response.expertInfo = LastExpert(AppliedEvents))
  /\ [][(\A i \in (Len(applied) + 1)..Len(applied') :
            applied'[i].event.type = "expert_debug") =>
          /\ Response'.content = Response.content
          /\ Response'.thinking = Response.thinking
          /\ Response'.structuredBlocks = Response.structuredBlocks]_vars

\* the lines that are not empty after trim()
NonBlank(ls) == SelectSeq(ls, LAMBDA l : Trim(l) # <<>>)

\* the body without its blank lines; its last line has a newline after it
\* when it has one in the body
Stripped(p) ==
  LET ls == Split(p) IN
  IF NonBlank(ls) = <<>> THEN <<>>
  ELSE Payload(NonBlank(ls), Trim(ls[Len(ls)]) = <<>>)

HasBlankLine(p) ==
  LET ls == Split(p) IN \E k \in 1..(Len(ls) - 1) : Trim(ls[k]) = <<>>

\* C30: empty and white-space lines give no event, and a body with such
\* lines among its event lines ends in the state of the body without them:
\* processStream applies the events of the other lines and ends with the
\* response and, white space apart, the buffer that the body without blank
\* lines gives; streamResponse yields the events of the other lines
C30_BlankLinesIgnored ==
  /\ pc = "done" =>
       /\ AppliedEvents = GoodEvents(NonBlank(Split(body)))
       /\ View(Response) = View(WholeRun(Stripped(body)).messages[3])
       /\ Trim(buffer) = Trim(WholeRun(Stripped(body)).buffer)
  /\ pc = "returned" => yielded = GoodEvents(NonBlank(Split(body)))

C30_Witness ==
  /\ pc = "done"
  /\ Len(chunks) = 2
  /\ HasBlankLine(body)
  /\ \E k \in 1..Len(body) : body[k] = SP
  /\ Len(applied) = 2
  /\ Response.content = "a" \o WarnMark \o "m"

\* C15: a stream_end event moves the response to complete
C15_StreamEndCompletes ==
  (\E i \in 1..Len(applied) : applied[i].event.type = "stream_end") =>
     Response.isComplete

\* a step that handles exactly one event, of the unknown type
OneUnknown(before, after) ==
  /\ Len(after) = Len(before) + 1
  /\ after[Len(after)].type = "custom"

\* C16: an event of an unknown type raises nothing and leaves the state as
\* it was: processStream changes no message (the end of the stream sets
\* isComplete, as it does without the event), the aggregator is unchanged
C16_UnknownTypeIgnored ==
  [][/\ (pc = "reading" /\ OneUnknown(AppliedEvents, AppliedEvents')) =>
          messages' =
            IF pc' = "reading" THEN messages
            ELSE MapMsg(messages, NewMsgId,
                        [m \in Elems(messages) |-> [m EXCEPT !.isComplete = TRUE]])
     /\ (pc = "aggregating" /\ OneUnknown(yielded, yielded')) =>
          (agg' = agg /\ pc' # "threw")]_vars

C16_Witness ==
  /\ pc = "done"
  /\ Len(chunks) = 2
  /\ Len(applied) = 2
  /\ applied[1].event.type = "answer"
  /\ applied[2].event.type = "custom"
  /\ Response.content = "c"

\* a step that handles values that are no objects, and nothing else
NonObjects(before, after) ==
  /\ Len(after) > Len(before)
  /\ \A i \in (Len(before) + 1)..Len(after) : after[i].kind # "object"

\* C31: a line that is JSON but no object (null, a number) raises nothing
\* and changes no message in processStream (the end of the stream sets
\* isComplete, as it does without the line); the aggregator is unchanged by
\* a chunk without a type, and a null is not handed to it
C31_NonObjectIgnored ==
  /\ [][/\ (pc = "reading" /\ NonObjects(AppliedEvents, AppliedEvents')) =>
            /\ pc' # "crashed"
            /\ messages' =
                 IF pc' = "reading" THEN messages
                 ELSE MapMsg(messages, NewMsgId,
                             [m \in Elems(messages) |-> [m EXCEPT !.isComplete = TRUE]])
        /\ (pc = "aggregating" /\ NonObjects(yielded, yielded')) =>
             (agg' = agg /\ pc' # "threw")]_vars
  /\ [](\A i \in 1..Len(yielded) : yielded[i].kind # "null")

\* a body with a newline after its last line
Terminated(p) == IF p = <<>> \/ p[Len(p)] = NL THEN p ELSE p \o <<NL>>

\* C17: a body whose last event line has no newline after it gives the final
\* message state of the same body with that newline
C17_LastLineSameRule ==
  pc = "done" => View(Response) = View(WholeRun(Terminated(body)).messages[3])

\* C11: the ordering key of the structured blocks of the response is strictly
\* increasing in arrival order: a block appended later has a greater key
C11_BlockKeysIncreasing ==
  LET blocks == Response.structuredBlocks IN
  \A i, j \in 1..Len(blocks) : i < j => blocks[i].id < blocks[j].id

\* ------------------------------------------------------------------------
\* Properties of cancellation
\* ------------------------------------------------------------------------
Streaming == pc \in {"fetch", "legacyFetch", "reading"}

\* stopGeneration aborts the controller of the request whose body is being read
StopStep == pc = "reading" /\ ~aborted /\ aborted'

\* the AbortError path of sendMessage: catch, return, finally
AbortErrorStep == Streaming /\ pc' = "aborted"

ReadFailStep == pc = "reading" /\ pc' = "failed"

\* C18: a failed read ends the response: it is complete, nothing is loading,
\* and its content is the content streamed so far followed by one error
\* message (the error message alone when nothing was streamed)
C18_ReadFailureAnnotatesOnce ==
  [][ReadFailStep =>
       /\ \E e \in {OfflineText, RequestFailedText} :
            Response'.content =
              IF Response.content = "" THEN e ELSE Response.content \o "\n\n" \o e
       /\ Response'.isComplete
       /\ ~isLoading'
       /\ abortControllerRef' = 0]_vars

C18_Witness ==
  /\ pc = "failed"
  /\ path = "json"
  /\ ~aborted
  /\ 0 < pos /\ pos < Len(chunks)
  /\ Response.content = "a" \o "\n\n" \o RequestFailedText
  /\ Response.isComplete

\* C19: when the first response is not ok there is exactly one further
\* fetch, of the fallback endpoint; when that is not ok either the response
\* is complete and its content is one error message
C19_OneFallbackThenFail ==
  (fetches # <<>> /\ fetches[1].outcome = "not ok") =>
     /\ Len(fetches) <= 2
     /\ Len(fetches) = 1 => pc \in {"legacyFetch", "aborted"}
     /\ Len(fetches) = 2 => fetches[2].url = Endpoint("legacy")
     /\ (Len(fetches) = 2 /\ fetches[2].outcome = "not ok") =>
          /\ pc = "failed"
          /\ Response.isComplete
          /\ Response.content \in {OfflineText, BusyText}

\* a is a prefix of b (strings, or sequences)
IsPrefix(a, b) == Len(a) <= Len(b) /\ SubSeq(b, 1, Len(a)) = a

\* C12: in every step, for every response that is there before and after it,
\* the content before is a prefix of the content after, and the list of
\* structured blocks before is a prefix of the list after
C12_NeverShrinks ==
  [][\A i \in 1..Len(messages), j \in 1..Len(messages') :
        (/\ messages[i].role = "assistant"
         /\ messages[i].id # 0
         /\ messages'[j].id = messages[i].id) =>
           /\ IsPrefix(messages[i].content, messages'[j].content)
           /\ IsPrefix(messages[i].structuredBlocks, messages'[j].structuredBlocks)]_vars

\* the requests whose read loop is reading
Readers == {k \in 1..Len(requests) : requests[k].pc = "reading"}

\* C20: at every moment at most one read loop is reading
C20_OneReadLoop == Cardinality(Readers) <= 1

\* the step is the deferred re-send scheduled by the handler h
Resend(h) == timers # <<>> /\ timers' = Tail(timers) /\ Head(timers).handler = h

Ids(msgs) == [i \in 1..Len(msgs) |-> msgs[i].id]

\* C23: after submitEdit(idx) and its re-send, the list is the messages that
\* were before idx, then a new user message with the edited text, then a new
\* assistant message
C23_EditTruncates ==
  [][Resend("submitEdit") =>
       LET c == Head(timers)
           n == Len(messages')
       IN /\ n = c.idx + 1
          /\ Ids(SubSeq(messages', 1, n - 2)) = Ids(SubSeq(c.messages, 1, c.idx - 1))
          /\ messages'[n - 1] = UserMsg(c.text, UserIdOf(Len(requests')))
          /\ messages'[n] = AssistantMsg(MsgIdOf(Len(requests')))]_vars

\* C24: after regenerateAnswer(i) and its re-send, the answer that was at i
\* is not in the list, and the list ends with a user message that has the
\* content of the nearest user message before i and a new assistant message
C24_RegenerateReplaces ==
  [][Resend("regenerateAnswer") =>
       LET c == Head(timers)
           n == Len(messages')
           userContent == c.messages[UserBefore(c.messages, c.idx - 1)].content
       IN /\ n >= 2
          /\ \A i \in 1..n : messages'[i].id # c.messages[c.idx].id
          /\ messages'[n - 1].role = "user"
          /\ messages'[n - 1].content = userContent
          /\ messages'[n] = AssistantMsg(MsgIdOf(Len(requests')))]_vars

\* the assistant message with the id, in a list that holds one
MsgOf(msgs, id) == msgs[CHOOSE i \in 1..Len(msgs) : msgs[i].id = id]

\* request k reaches the end of its stream or the error path in this step
Terminates(k) ==
  requests[k].pc \notin {"done", "failed"} /\ requests'[k].pc \in {"done", "failed"}

\* no step sets a complete response back to incomplete
FlagMonotonic ==
  \A k \in 1..Len(requests) :
     (/\ Holds(messages, requests[k].id)
      /\ Holds(messages', requests[k].id)
      /\ MsgOf(messages, requests[k].id).isComplete) =>
        MsgOf(messages', requests[k].id).isComplete

\* the end of the stream and the error path come to no response that is
\* complete already
OneOutcome ==
  \A k \in 1..Len(requests) :
     (Terminates(k) /\ Holds(messages, requests[k].id)) =>
        ~MsgOf(messages, requests[k].id).isComplete

\* C26: once a response is complete no step makes it incomplete again, and
\* a response reaches at most one of the terminal outcomes (end of stream,
\* stopGeneration, error path)
C26_CompleteOnce == [][FlagMonotonic /\ OneOutcome]_vars

\* request k has not come to its end
InFlight(k) == requests[k].pc \in {"fetch", "reading"}

\* C32: while the latest request is in flight and has not been stopped, the
\* cancellation handle is its controller and isLoading is true, whatever
\* earlier requests have completed meanwhile
C32_HandleOfRequestInFlight ==
  LET k == Len(requests) IN
  (k > 0 /\ InFlight(k) /\ ~requests[k].aborted) =>
     (abortControllerRef = k /\ isLoading)

\* the copies of the response of request k, in messages and in the history
Copies(k) ==
  {messages[i] : i \in {j \in 1..Len(messages) : messages[j].id = MsgIdOf(k)}}
    \cup UNION {{history[c].messages[i] :
                   i \in {j \in 1..Len(history[c].messages) :
                            history[c].messages[j].id = MsgIdOf(k)}} :
                c \in 1..Len(history)}

Incomplete(k) == \E m \in Copies(k) : ~m.isComplete

\* C33: the response of every request is complete in the end, in messages
\* and in the history, whatever the user does with the chats meanwhile
C33_EventuallyComplete ==
  \A k \in 1..MaxRequests : (Len(requests) >= k) ~> ~Incomplete(k)

\* the step leaves every message alone but the one with the id
OnlyChanges(id) ==
  /\ Len(messages') = Len(messages)
  /\ \A i \in 1..Len(messages) : messages[i].id # id => messages'[i] = messages[i]

\* request k applies the events of a chunk, or ends its stream
EventStep(k) ==
  /\ requests[k].pc = "reading"
  /\ requests'[k].pc \in {"reading", "done"}
  /\ requests'[k].pos = requests[k].pos + 1 \/ requests'[k].pc = "done"

\* stopGeneration: isLoading is reset and no request moves
StopGenerationStep ==
  /\ isLoading
  /\ ~isLoading'
  /\ Len(requests') = Len(requests)
  /\ \A k \in 1..Len(requests) : requests'[k].pc = requests[k].pc

\* the stream events of a request change no message but its response
StreamFrame == \A k \in 1..Len(requests) : EventStep(k) => OnlyChanges(requests[k].id)

\* C34: a step that applies stream events changes no message but the
\* response of its request, and stopGeneration changes no message but the
\* response of the request it cancels (the one that holds the handle)
C34_OnlyResponseChanges ==
  [][/\ StreamFrame
     /\ StopGenerationStep => OnlyChanges(MsgIdOf(abortControllerRef))]_vars

\* C4: after cancel, no further chunk is read and no further event is
\* applied, on every request path
C4_NoReadAfterCancel ==
  [][aborted => (pos' = pos /\ applied' = applied)]_vars

\* ------------------------------------------------------------------------
\* processContent: the markdown table repair
\* ------------------------------------------------------------------------
\* the text is a sequence of these symbols; BR is the three characters `<br`
PIPE == "|"
BR == "<br"
GT == ">"
SLASH == "/"
TextSymbols == {PIPE, "a", SP, NL, BR, GT}

\* the literal '<br>' and the literal ' |'
BrTag == <<BR, GT>>
ClosingPipe == <<SP, PIPE>>

\* the end of a match of /<br\s*\/?>/ that starts at k, or 0 when there is none
RECURSIVE SkipWs(_, _)
SkipWs(s, k) == IF k <= Len(s) /\ IsWs(s[k]) THEN SkipWs(s, k + 1) ELSE k

BrMatchEnd(s, k) ==
  IF s[k] # BR THEN 0
  ELSE LET j == SkipWs(s, k + 1)
           j2 == IF j <= Len(s) /\ s[j] = SLASH THEN j + 1 ELSE j
       IN IF j2 <= Len(s) /\ s[j2] = GT THEN j2 ELSE 0

\* content.replace(/<br\s*\/?>/gi, '\n')
RECURSIVE ReplaceBr(_, _)
ReplaceBr(s, k) ==
  IF k > Len(s) THEN <<>>
  ELSE IF BrMatchEnd(s, k) # 0 THEN <<NL>> \o ReplaceBr(s, BrMatchEnd(s, k) + 1)
  ELSE <<s[k]>> \o ReplaceBr(s, k + 1)

Includes(s, c) == \E k \in 1..Len(s) : s[k] = c

startsWithPipe(trimmed) == trimmed # <<>> /\ trimmed[1] = PIPE
endsWithPipe(trimmed) == trimmed # <<>> /\ trimmed[Len(trimmed)] = PIPE
isCompleteLine(trimmed) ==
  startsWithPipe(trimmed) /\ endsWithPipe(trimmed) /\ Len(trimmed) > 1

\* /^\|[\s\-:|]+\|$/.test(trimmed)
isSeparator(trimmed) ==
  /\ Len(trimmed) >= 3
  /\ trimmed[1] = PIPE
  /\ trimmed[Len(trimmed)] = PIPE
  /\ \A k \in 2..(Len(trimmed) - 1) : trimmed[k] \in {SP, NL, "-", ":", PIPE}

Pending(row) == [open |-> TRUE, text |-> row]

\* a loop that joins a closing line to the pending row without trimming it
LineStepUntrimmed(st, line) ==
  LET trimmed == Trim(line) IN
  IF st.pending.open
  THEN
    IF endsWithPipe(trimmed)
    THEN [pending |-> NoPending,
          result |-> Append(st.result, st.pending.text \o BrTag \o line)]
    ELSE IF startsWithPipe(trimmed) /\ ~endsWithPipe(trimmed)
    THEN [pending |-> Pending(trimmed),
          result |-> Append(st.result, st.pending.text \o ClosingPipe)]
    ELSE IF trimmed = <<>>
    THEN [pending |-> NoPending,
          result |-> st.result \o <<st.pending.text \o ClosingPipe, line>>]
    ELSE [pending |-> Pending(st.pending.text \o BrTag \o trimmed),
          result |-> st.result]
  ELSE
    IF isCompleteLine(trimmed) \/ isSeparator(trimmed)
    THEN [pending |-> NoPending, result |-> Append(st.result, line)]
    ELSE IF startsWithPipe(trimmed) /\ ~endsWithPipe(trimmed) /\ Len(trimmed) > 1
    THEN [pending |-> Pending(trimmed), result |-> st.result]
    ELSE [pending |-> NoPending, result |-> Append(st.result, line)]

\* a loop that emits the lines it passes through trimmed
LineStepTrimsPlain(st, line) ==
  LET trimmed == Trim(line) IN
  IF st.pending.open
  THEN
    IF endsWithPipe(trimmed)
    THEN [pending |-> NoPending,
          result |-> Append(st.result, st.pending.text \o BrTag \o trimmed)]
    ELSE IF startsWithPipe(trimmed) /\ ~endsWithPipe(trimmed)
    THEN [pending |-> Pending(trimmed),
          result |-> Append(st.result, st.pending.text \o ClosingPipe)]
    ELSE IF trimmed = <<>>
    THEN [pending |-> NoPending,
          result |-> st.result \o <<st.pending.text \o ClosingPipe, line>>]
    ELSE [pending |-> Pending(st.pending.text \o BrTag \o trimmed),
          result |-> st.result]
  ELSE
    IF isCompleteLine(trimmed) \/ isSeparator(trimmed)
    THEN [pending |-> NoPending, result |-> Append(st.result, trimmed)]
    ELSE IF startsWithPipe(trimmed) /\ ~endsWithPipe(trimmed) /\ Len(trimmed) > 1
    THEN [pending |-> Pending(trimmed), result |-> st.result]
    ELSE [pending |-> NoPending, result |-> Append(st.result, trimmed)]

\* one turn of the for loop; st = [pending, result]
LineStep(st, line) ==
  LET trimmed == Trim(line) IN
  IF st.pending.open
  THEN
    IF endsWithPipe(trimmed)
    THEN [pending |-> NoPending,
          result |-> Append(st.result, st.pending.text \o BrTag \o trimmed)]
    ELSE IF startsWithPipe(trimmed) /\ ~endsWithPipe(trimmed)
    THEN [pending |-> Pending(trimmed),
          result |-> Append(st.result, st.pending.text \o ClosingPipe)]
    ELSE IF trimmed = <<>>
    THEN [pending |-> NoPending,
          result |-> st.result \o <<st.pending.text \o ClosingPipe, line>>]
    ELSE [pending |-> Pending(st.pending.text \o BrTag \o trimmed),
          result |-> st.result]
  ELSE
    IF isCompleteLine(trimmed) \/ isSeparator(trimmed)
    THEN [pending |-> NoPending, result |-> Append(st.result, line)]
    ELSE IF startsWithPipe(trimmed) /\ ~endsWithPipe(trimmed) /\ Len(trimmed) > 1
    THEN [pending |-> Pending(trimmed), result |-> st.result]
    ELSE [pending |-> NoPending, result |-> Append(st.result, line)]

\* result.join('\n')
RECURSIVE JoinLines(_)
JoinLines(ls) ==
  IF ls = <<>> THEN <<>>
  ELSE IF Len(ls) = 1 THEN ls[1]
  ELSE ls[1] \o <<NL>> \o JoinLines(Tail(ls))

\* an end of the loop that emits a pending row as it is
FinalLinesLeavesOpen(st) ==
  IF st.pending.open THEN Append(st.result, st.pending.text) ELSE st.result

\* after the loop: a pending row is closed, the lines are joined
FinalLines(st) ==
  IF st.pending.open THEN Append(st.result, st.pending.text \o ClosingPipe)
  ELSE st.result

\* the call, up to the loop
RepairBegin ==
  /\ phase = "start"
  /\ LET text == ReplaceBr(rawContent, 1) IN
       IF rawContent = <<>>
       THEN /\ returned' = rawContent
            /\ phase' = "done"
            /\ UNCHANGED <<tableLines, lineIdx, resultLines, pendingTableRow>>
       ELSE IF ~Includes(text, PIPE)
       THEN /\ returned' = text
            /\ phase' = "done"
            /\ UNCHANGED <<tableLines, lineIdx, resultLines, pendingTableRow>>
       ELSE /\ tableLines' = Split(text)
            /\ lineIdx' = 0
            /\ resultLines' = <<>>
            /\ pendingTableRow' = NoPending
            /\ phase' = "loop"
            /\ UNCHANGED returned
  /\ UNCHANGED <<rawContent, pass, firstReturned>>
  /\ UNCHANGED streamVars
  /\ UNCHANGED auxVars

\* one turn of the loop
RepairLine ==
  /\ phase = "loop"
  /\ lineIdx < Len(tableLines)
  /\ LET st == LineStep([pending |-> pendingTableRow, result |-> resultLines],
                        tableLines[lineIdx + 1]) IN
       /\ pendingTableRow' = st.pending
       /\ resultLines' = st.result
  /\ lineIdx' = lineIdx + 1
  /\ UNCHANGED <<rawContent, tableLines, returned, phase, pass, firstReturned>>
  /\ UNCHANGED streamVars
  /\ UNCHANGED auxVars

\* the end of the loop and the return
RepairEnd ==
  /\ phase = "loop"
  /\ lineIdx = Len(tableLines)
  /\ resultLines' = FinalLines([pending |-> pendingTableRow, result |-> resultLines])
  /\ pendingTableRow' = NoPending
  /\ returned' = JoinLines(resultLines')
  /\ phase' = "done"
  /\ UNCHANGED <<rawContent, tableLines, lineIdx, pass, firstReturned>>
  /\ UNCHANGED streamVars
  /\ UNCHANGED auxVars

\* processContent is called on what it returned
RepairAgain ==
  /\ phase = "done"
  /\ pass = 1
  /\ firstReturned' = returned
  /\ rawContent' = returned
  /\ pass' = 2
  /\ phase' = "start"
  /\ UNCHANGED <<tableLines, lineIdx, resultLines, pendingTableRow, returned>>
  /\ UNCHANGED streamVars
  /\ UNCHANGED auxVars

InitRepair ==
  /\ rawContent \in SeqsUpTo(TextSymbols, MaxText)
  /\ tableLines = <<>>
  /\ lineIdx = 0
  /\ resultLines = <<>>
  /\ pendingTableRow = NoPending
  /\ returned = <<>>
  /\ phase = "start"
  /\ pass = 1
  /\ firstReturned = <<>>
  /\ chunks = <<>>
  /\ pos = 0
  /\ buffer = <<>>
  /\ messages = <<>>
  /\ applied = <<>>
  /\ yielded = <<>>
  /\ pc = "idle"
  /\ path = "none"
  /\ isLoading = FALSE
  /\ abortControllerRef = 0
  /\ aborted = FALSE
  /\ AuxIdle
  /\ readerLocked = FALSE

NextRepair == RepairBegin \/ RepairLine \/ RepairEnd \/ RepairAgain

SpecRepair == InitRepair /\ [][NextRepair]_vars

\* ------------------------------------------------------------------------
\* Properties of the table repair
\* ------------------------------------------------------------------------
\* the step is a turn of the loop on the line cur, or the end of the loop
LoopTurn == phase = "loop" /\ lineIdx' = lineIdx + 1
LoopEnd == phase = "loop" /\ phase' = "done"
cur == tableLines[lineIdx + 1]
ForceClosed == pendingTableRow.text \o ClosingPipe

\* C28: with a row pending, a blank line emits the force-closed row and the
\* blank line itself and clears pending; a line that starts with '|' and
\* does not end with '|' emits the force-closed row and becomes the pending
\* row; the end of the input emits the force-closed row; a line that ends
\* with '|' is joined with '<br>' and the row is emitted; any other line is
\* joined to the pending row with '<br>' and nothing is emitted
C28_ForceCloseCases ==
  [][/\ (LoopTurn /\ pendingTableRow.open) =>
          LET t == Trim(cur) IN
          CASE t = <<>> ->
                 /\ resultLines' = resultLines \o <<ForceClosed, cur>>
                 /\ ~pendingTableRow'.open
            [] startsWithPipe(t) /\ ~endsWithPipe(t) ->
                 /\ resultLines' = Append(resultLines, ForceClosed)
                 /\ pendingTableRow' = Pending(t)
            [] endsWithPipe(t) ->
                 /\ resultLines' = Append(resultLines, pendingTableRow.text \o BrTag \o t)
                 /\ ~pendingTableRow'.open
            [] OTHER ->
                 /\ resultLines' = resultLines
                 /\ pendingTableRow' = Pending(pendingTableRow.text \o BrTag \o t)
     /\ (LoopEnd /\ pendingTableRow.open) =>
          resultLines' = Append(resultLines, ForceClosed)
     /\ (LoopEnd /\ ~pendingTableRow.open) => resultLines' = resultLines]_vars

C28_Witness ==
  /\ phase = "done"
  /\ pass = 1
  /\ tableLines = << <<PIPE, "a">>, <<>>, <<PIPE, "a">> >>
  /\ resultLines = << <<PIPE, "a", SP, PIPE>>, <<>>, <<PIPE, "a", SP, PIPE>> >>

\* the line opens a pending row: it starts with '|', does not end with '|'
\* and is longer than the '|'
Opens(line) ==
  LET t == Trim(line) IN startsWithPipe(t) /\ ~endsWithPipe(t) /\ Len(t) > 1

Normalised == ReplaceBr(rawContent, 1)

\* C29: with no row pending, a line that opens none is emitted as it is,
\* after the lines emitted before it, and no row is pending after it; a text
\* none of whose lines opens a row is returned as its normalised text; and
\* so is a text whose normalised text has no '|'
C29_PassThrough ==
  /\ [][(LoopTurn /\ ~pendingTableRow.open /\ ~Opens(cur)) =>
          /\ resultLines' = Append(resultLines, cur)
          /\ ~pendingTableRow'.open]_vars
  /\ [](phase = "done" =>
          LET ls == Split(Normalised) IN
          ((\A k \in 1..Len(ls) : ~Opens(ls[k])) \/ ~Includes(Normalised, PIPE)) =>
             returned = Normalised)

C29_Witness ==
  /\ phase = "done"
  /\ pass = 1
  /\ rawContent = <<SP, PIPE, "a", PIPE, NL, PIPE>>
  /\ resultLines = << <<SP, PIPE, "a", PIPE>>, <<PIPE>> >>
  /\ returned = rawContent

\* C9: processContent(processContent(x)) = processContent(x)
C9_Idempotent ==
  (pass = 2 /\ phase = "done") => returned = firstReturned

\* lines a..b are a table row wrapped across b - a + 1 >= 2 physical lines
WrappedRow(ls, a, b) ==
  /\ a < b
  /\ startsWithPipe(Trim(ls[a])) /\ ~endsWithPipe(Trim(ls[a]))
  /\ \A k \in (a + 1)..(b - 1) :
       /\ Trim(ls[k]) # <<>>
       /\ ~startsWithPipe(Trim(ls[k]))
       /\ ~endsWithPipe(Trim(ls[k]))
  /\ endsWithPipe(Trim(ls[b]))

\* the trimmed lines a..b joined by '<br>'
RECURSIVE JoinBr(_, _, _)
JoinBr(ls, a, b) ==
  IF a = b THEN Trim(ls[a]) ELSE Trim(ls[a]) \o BrTag \o JoinBr(ls, a + 1, b)

isRowLine(l) == startsWithPipe(l) /\ endsWithPipe(l) /\ ~Includes(l, NL)

\* C10: when the loop has done the last line of a wrapped row, the line it
\* emitted last is the row's trimmed pieces joined by '<br>', a single line
\* that starts and ends with '|', and no row is pending; a text that is one
\* wrapped row is returned as that single line; and every line emitted from
\* a pending row, merged or force-closed, starts and ends with '|'
C10_WrappedRowCollapses ==
  /\ [](\A a \in 1..Len(tableLines) :
          (phase = "loop" /\ WrappedRow(tableLines, a, lineIdx)) =>
             /\ ~pendingTableRow.open
             /\ resultLines # <<>>
             /\ resultLines[Len(resultLines)] = JoinBr(tableLines, a, lineIdx)
             /\ isRowLine(resultLines[Len(resultLines)]))
  /\ []((phase = "done" /\ tableLines # <<>>
          /\ WrappedRow(tableLines, 1, Len(tableLines))) =>
             returned = JoinBr(tableLines, 1, Len(tableLines)))
  /\ [][(phase = "loop" /\ pendingTableRow.open
          /\ Len(resultLines') > Len(resultLines)) =>
             isRowLine(resultLines'[Len(resultLines) + 1])]_vars

C10_Witness ==
  /\ phase = "done"
  /\ pass = 1
  /\ Len(tableLines) = 3
  /\ WrappedRow(tableLines, 1, 3)
  /\ returned = <<PIPE, "a", BR, GT, "a", BR, GT, PIPE>>

====
